---- MODULE Spec2Model ----
(***************************************************************************)
(* Model of the Proposal Assistant conversation workflow:                  *)
(*   state/models.py   State, Event, ThreadState                           *)
(*   state/machine.py  TRANSITIONS, StateMachine                           *)
(*   state/storage.py  JSONStorage                                         *)
(*   slack/handlers.py the Slack event handlers                            *)
(*                                                                         *)
(* None is written "None".  A Python dict (the cache, the files of the     *)
(* storage directory) is a function whose DOMAIN is the set of its keys.   *)
(***************************************************************************)
EXTENDS Integers, Sequences, FiniteSets, TLC

\* ------------------------------------------------------------------------
\* Bounds of the model.

\* Largest value of the wall clock read by datetime.utcnow().
MaxTime == 1

\* ------------------------------------------------------------------------
\* state/models.py

\* class State(Enum): the members, by name.
State ==
    {"IDLE", "WAITING_FOR_INPUTS", "GENERATING_DEAL_ANALYSIS",
     "WAITING_FOR_APPROVAL", "GENERATING_DECK", "DONE", "ERROR"}

\* class Event(Enum): the members, by name.
Event ==
    {"ANALYSE_REQUESTED", "INPUTS_MISSING", "DEAL_ANALYSIS_CREATED", "APPROVED",
     "REJECTED", "UPDATED_DEAL_ANALYSIS_PROVIDED", "DECK_CREATED", "FAILED",
     "REGENERATE_REQUESTED", "CLOUD_CONSENT_GIVEN"}

\* State.<member>.value: the string each member of State carries.
StateValue ==
    [s \in State |->
        CASE s = "IDLE" -> "IDLE"
          [] s = "WAITING_FOR_INPUTS" -> "WAITING_FOR_INPUTS"
          [] s = "GENERATING_DEAL_ANALYSIS" -> "GENERATING_DEAL_ANALYSIS"
          [] s = "WAITING_FOR_APPROVAL" -> "WAITING_FOR_APPROVAL"
          [] s = "GENERATING_DECK" -> "GENERATING_DECK"
          [] s = "DONE" -> "DONE"
          [] s = "ERROR" -> "ERROR"]

\* State(value): the member that carries the value.
StateOf(v) == CHOOSE s \in State : StateValue[s] = v

\* ThreadState(thread_ts, channel_id, user_id): a new record with the
\* dataclass defaults; the timestamps are datetime.utcnow() at the call.
ThreadState(thread_ts, channel_id, user_id, now) ==
    [thread_ts |-> thread_ts,
     channel_id |-> channel_id,
     user_id |-> user_id,
     channel_type |-> "None",
     user_email |-> "None",
     client_name |-> "None",
     client_folder_id |-> "None",
     analyse_folder_id |-> "None",
     proposals_folder_id |-> "None",
     deal_analysis_doc_id |-> "None",
     deal_analysis_link |-> "None",
     deal_analysis_content |-> "None",
     deal_analysis_version |-> 1,
     slides_deck_id |-> "None",
     slides_deck_link |-> "None",
     state |-> "IDLE",
     previous_state |-> "None",
     input_transcript_file_ids |-> <<>>,
     input_transcript_content |-> <<>>,
     input_reference_file_ids |-> <<>>,
     input_urls |-> <<>>,
     missing_info_items |-> <<>>,
     error_message |-> "None",
     error_type |-> "None",
     retry_count |-> 0,
     cloud_consent_given |-> FALSE,
     created_at |-> now,
     updated_at |-> now]

\* ------------------------------------------------------------------------
\* state/machine.py

\* TRANSITIONS with one more edge, an approval accepted before any analysis.
TRANSITIONS_shortcut ==
    ( <<"IDLE", "ANALYSE_REQUESTED">> :> "GENERATING_DEAL_ANALYSIS"
   @@ <<"IDLE", "INPUTS_MISSING">> :> "WAITING_FOR_INPUTS"
   @@ <<"IDLE", "APPROVED">> :> "GENERATING_DECK"
   @@ <<"GENERATING_DEAL_ANALYSIS", "DEAL_ANALYSIS_CREATED">> :> "WAITING_FOR_APPROVAL"
   @@ <<"GENERATING_DEAL_ANALYSIS", "FAILED">> :> "ERROR"
   @@ <<"WAITING_FOR_APPROVAL", "APPROVED">> :> "GENERATING_DECK"
   @@ <<"WAITING_FOR_APPROVAL", "REJECTED">> :> "DONE"
   @@ <<"WAITING_FOR_APPROVAL", "UPDATED_DEAL_ANALYSIS_PROVIDED">> :> "GENERATING_DECK"
   @@ <<"WAITING_FOR_APPROVAL", "REGENERATE_REQUESTED">> :> "GENERATING_DEAL_ANALYSIS"
   @@ <<"GENERATING_DECK", "DECK_CREATED">> :> "DONE"
   @@ <<"GENERATING_DECK", "FAILED">> :> "ERROR"
   @@ <<"ERROR", "ANALYSE_REQUESTED">> :> "GENERATING_DEAL_ANALYSIS"
   @@ <<"ERROR", "CLOUD_CONSENT_GIVEN">> :> "GENERATING_DEAL_ANALYSIS"
   @@ <<"ERROR", "REJECTED">> :> "DONE" )

\* TRANSITIONS with one more edge, a new analysis asked of a conversation
\* that is over.
TRANSITIONS_reopen ==
    ( <<"IDLE", "ANALYSE_REQUESTED">> :> "GENERATING_DEAL_ANALYSIS"
   @@ <<"IDLE", "INPUTS_MISSING">> :> "WAITING_FOR_INPUTS"
   @@ <<"GENERATING_DEAL_ANALYSIS", "DEAL_ANALYSIS_CREATED">> :> "WAITING_FOR_APPROVAL"
   @@ <<"GENERATING_DEAL_ANALYSIS", "FAILED">> :> "ERROR"
   @@ <<"WAITING_FOR_APPROVAL", "APPROVED">> :> "GENERATING_DECK"
   @@ <<"WAITING_FOR_APPROVAL", "REJECTED">> :> "DONE"
   @@ <<"WAITING_FOR_APPROVAL", "UPDATED_DEAL_ANALYSIS_PROVIDED">> :> "GENERATING_DECK"
   @@ <<"WAITING_FOR_APPROVAL", "REGENERATE_REQUESTED">> :> "GENERATING_DEAL_ANALYSIS"
   @@ <<"GENERATING_DECK", "DECK_CREATED">> :> "DONE"
   @@ <<"GENERATING_DECK", "FAILED">> :> "ERROR"
   @@ <<"ERROR", "ANALYSE_REQUESTED">> :> "GENERATING_DEAL_ANALYSIS"
   @@ <<"ERROR", "CLOUD_CONSENT_GIVEN">> :> "GENERATING_DEAL_ANALYSIS"
   @@ <<"ERROR", "REJECTED">> :> "DONE"
   @@ <<"DONE", "ANALYSE_REQUESTED">> :> "GENERATING_DEAL_ANALYSIS" )

\* TRANSITIONS: (current_state, event) -> next_state.
TRANSITIONS ==
    ( <<"IDLE", "ANALYSE_REQUESTED">> :> "GENERATING_DEAL_ANALYSIS"
   @@ <<"IDLE", "INPUTS_MISSING">> :> "WAITING_FOR_INPUTS"
   @@ <<"GENERATING_DEAL_ANALYSIS", "DEAL_ANALYSIS_CREATED">> :> "WAITING_FOR_APPROVAL"
   @@ <<"GENERATING_DEAL_ANALYSIS", "FAILED">> :> "ERROR"
   @@ <<"WAITING_FOR_APPROVAL", "APPROVED">> :> "GENERATING_DECK"
   @@ <<"WAITING_FOR_APPROVAL", "REJECTED">> :> "DONE"
   @@ <<"WAITING_FOR_APPROVAL", "UPDATED_DEAL_ANALYSIS_PROVIDED">> :> "GENERATING_DECK"
   @@ <<"WAITING_FOR_APPROVAL", "REGENERATE_REQUESTED">> :> "GENERATING_DEAL_ANALYSIS"
   @@ <<"GENERATING_DECK", "DECK_CREATED">> :> "DONE"
   @@ <<"GENERATING_DECK", "FAILED">> :> "ERROR"
   @@ <<"ERROR", "ANALYSE_REQUESTED">> :> "GENERATING_DEAL_ANALYSIS"
   @@ <<"ERROR", "CLOUD_CONSENT_GIVEN">> :> "GENERATING_DEAL_ANALYSIS"
   @@ <<"ERROR", "REJECTED">> :> "DONE" )

\* StateMachine._make_key: f"{channel_id}_{thread_ts}", on strings written as
\* sequences of characters.
_make_key(thread_ts, channel_id) == channel_id \o <<"_">> \o thread_ts

\* StateMachine.can_transition.
can_transition(current_state, event) == <<current_state, event>> \in DOMAIN TRANSITIONS

\* StateMachine.__init__: storage is TRUE when a storage backend is given.
StateMachine(storage) == [_storage |-> storage, _cache |-> <<>>]

\* ------------------------------------------------------------------------
\* state/storage.py

\* A reading t of the clock is the datetime of t half seconds after
\* 2026-01-01T00:00:00: its second and its microsecond.
second(t) == t \div 2
microsecond(t) == (t % 2) * 500000

\* str.zfill(width) and int(txt) for a text of digits.
RECURSIVE zfill(_, _)
zfill(txt, width) == IF Len(txt) >= width THEN txt ELSE zfill("0" \o txt, width)
RECURSIVE int(_)
int(txt) ==
    IF txt = "" THEN 0
    ELSE 10 * int(SubSeq(txt, 1, Len(txt) - 1))
         + (CHOOSE d \in 0..9 : ToString(d) = SubSeq(txt, Len(txt), Len(txt)))

\* datetime.isoformat(): "YYYY-MM-DDTHH:MM:SS", followed by ".ffffff" when
\* the microsecond is not 0.
isoformat(t) ==
    "2026-01-01T00:00:" \o zfill(ToString(second(t)), 2)
        \o (IF microsecond(t) = 0 THEN "" ELSE "." \o zfill(ToString(microsecond(t)), 6))

\* datetime.fromisoformat(): the datetime of the text, as a reading of the
\* clock.
fromisoformat(txt) ==
    2 * int(SubSeq(txt, 18, 19))
        + (IF Len(txt) > 19 THEN int(SubSeq(txt, 21, 26)) ELSE 0) \div 500000

\* JSONStorage._get_path: threads_dir / f"{channel_id}_{thread_ts}.json".
_get_path(thread_ts, channel_id) ==
    channel_id \o <<"_">> \o thread_ts \o <<".", "j", "s", "o", "n">>

\* JSONStorage._serialize: the enum members become their values, the
\* timestamps their ISO text.
_serialize(state) ==
    [state EXCEPT
        !.state = StateValue[state.state],
        !.previous_state =
            IF state.previous_state # "None"
            THEN StateValue[state.previous_state] ELSE "None",
        !.created_at = isoformat(state.created_at),
        !.updated_at = isoformat(state.updated_at)]

\* JSONStorage._deserialize.
_deserialize(data) ==
    [data EXCEPT
        !.state = StateOf(data.state),
        !.previous_state =
            IF data.previous_state # "None"
            THEN StateOf(data.previous_state) ELSE "None",
        !.created_at = fromisoformat(data.created_at),
        !.updated_at = fromisoformat(data.updated_at)]

\* JSONStorage.save: the files after writing the record's file.
save(fs, state) ==
    (_get_path(state.thread_ts, state.channel_id) :> _serialize(state)) @@ fs

\* JSONStorage.load: <<>> for None (no file), <<record>> otherwise.
load(fs, thread_ts, channel_id) ==
    IF _get_path(thread_ts, channel_id) \notin DOMAIN fs
    THEN <<>>
    ELSE <<_deserialize(fs[_get_path(thread_ts, channel_id)])>>

\* ------------------------------------------------------------------------
\* state/machine.py, the methods.  A call works on the machine m and on the
\* files fs of its storage; datetime.utcnow() reads now during the call (a
\* call is short against the steps of the clock).  Its
\* outcome holds the machine and the files after the call, the record the
\* call returns (the cached object, so the cache entry itself) and the
\* number of storage.load calls it made.

\* get_state that hands back a loaded record without caching it.
get_state_uncached(m, fs, thread_ts, channel_id, user_id, now) ==
    LET key == _make_key(thread_ts, channel_id)
        found == IF m._storage THEN load(fs, thread_ts, channel_id) ELSE <<>>
        fresh == ThreadState(thread_ts, channel_id, user_id, now)
    IN  IF key \in DOMAIN m._cache
        THEN [m |-> m, fs |-> fs, state |-> m._cache[key], loads |-> 0]
        ELSE IF found # <<>>
        THEN [m |-> m, fs |-> fs, state |-> found[1], loads |-> 1]
        ELSE [m |-> [m EXCEPT !._cache = (key :> fresh) @@ m._cache],
              fs |-> IF m._storage THEN save(fs, fresh) ELSE fs,
              state |-> fresh,
              loads |-> IF m._storage THEN 1 ELSE 0]

\* The body of StateMachine.get_state, given the key, what storage.load
\* returns at the key (<<>> for None or without storage) and the record a
\* ThreadState(...) call would create.
get_state_at(m, fs, key, found, fresh) ==
    IF key \in DOMAIN m._cache
    THEN [m |-> m, fs |-> fs, state |-> m._cache[key], loads |-> 0]
    ELSE IF found # <<>>
    THEN [m |-> [m EXCEPT !._cache = (key :> found[1]) @@ m._cache],
          fs |-> fs, state |-> found[1], loads |-> 1]
    ELSE [m |-> [m EXCEPT !._cache = (key :> fresh) @@ m._cache],
          fs |-> IF m._storage THEN save(fs, fresh) ELSE fs,
          state |-> fresh,
          loads |-> IF m._storage THEN 1 ELSE 0]

\* StateMachine.get_state.
get_state(m, fs, thread_ts, channel_id, user_id, now) ==
    get_state_at(m, fs, _make_key(thread_ts, channel_id),
                 IF m._storage /\ _make_key(thread_ts, channel_id) \notin DOMAIN m._cache
                 THEN load(fs, thread_ts, channel_id) ELSE <<>>,
                 ThreadState(thread_ts, channel_id, user_id, now))

\* The kwargs loop of StateMachine.transition: every keyword that names an
\* attribute of the record is set, the others are skipped.
apply_kwargs(state, kwargs) ==
    [f \in DOMAIN state |-> IF f \in DOMAIN kwargs THEN kwargs[f] ELSE state[f]]

\* transition that saves the record before the kwargs loop.
transition_saves_first(m, fs, thread_ts, channel_id, event, kwargs, now) ==
    LET key == _make_key(thread_ts, channel_id)
        got == get_state(m, fs, thread_ts, channel_id, "", now)
        state == got.state
        moved == [state EXCEPT
                    !.previous_state = state.state,
                    !.state = TRANSITIONS[<<state.state, event>>],
                    !.updated_at = now]
        updated == apply_kwargs(moved, kwargs)
    IN  IF ~can_transition(state.state, event)
        THEN [m |-> got.m, fs |-> got.fs, state |-> state, loads |-> got.loads,
              raised |-> TRUE, current_state |-> state.state, event |-> event]
        ELSE [m |-> [got.m EXCEPT !._cache = (key :> updated) @@ got.m._cache],
              fs |-> IF m._storage THEN save(got.fs, moved) ELSE got.fs,
              state |-> updated, loads |-> got.loads,
              raised |-> FALSE, current_state |-> state.state, event |-> event]

\* The end of a valid transition: the record is in the cache and is saved.
transition_to(got, storage, key, event, updated) ==
    [m |-> [got.m EXCEPT !._cache = (key :> updated) @@ got.m._cache],
     fs |-> IF storage THEN save(got.fs, updated) ELSE got.fs,
     state |-> updated, loads |-> got.loads,
     raised |-> FALSE, current_state |-> got.state.state, event |-> event]

\* The body of StateMachine.transition after its get_state call returned
\* got: the validity check, then the new state, the stamp and the kwargs
\* loop (updated), the cache holding the record, and the save.  raised is
\* TRUE for InvalidTransitionError, which carries current_state and event.
transition_from(got, storage, key, event, kwargs, now) ==
    IF ~can_transition(got.state.state, event)
    THEN [m |-> got.m, fs |-> got.fs, state |-> got.state, loads |-> got.loads,
          raised |-> TRUE, current_state |-> got.state.state, event |-> event]
    ELSE transition_to(got, storage, key, event,
             apply_kwargs([got.state EXCEPT
                              !.previous_state = got.state.state,
                              !.state = TRANSITIONS[<<got.state.state, event>>],
                              !.updated_at = now],
                          kwargs))

\* transition that counts every transition as a new version of the analysis,
\* unless the caller passes the version.
transition_counts_versions(m, fs, thread_ts, channel_id, event, kwargs, now) ==
    transition_from(get_state(m, fs, thread_ts, channel_id, "", now),
                    m._storage, _make_key(thread_ts, channel_id), event,
                    kwargs @@ [deal_analysis_version |->
                                 get_state(m, fs, thread_ts, channel_id, "", now)
                                    .state.deal_analysis_version + 1],
                    now)

\* StateMachine.transition.
transition(m, fs, thread_ts, channel_id, event, kwargs, now) ==
    transition_from(get_state(m, fs, thread_ts, channel_id, "", now),
                    m._storage, _make_key(thread_ts, channel_id), event, kwargs, now)

\* ------------------------------------------------------------------------
\* The callers of the StateMachine API and what they pass.

\* (thread_ts, channel_id) pairs, as sequences of characters.
Pairs ==
    { << <<"1", "_", "2">>, <<"C">> >>,
      << <<"2">>, <<"C", "_", "1">> >> }

\* The cache keys of the pairs.
Keys == {_make_key(p[1], p[2]) : p \in Pairs}

\* user_id arguments of get_state; "" is the default.
Users == {"", "U001"}

\* Keyword arguments of a transition call, by number: none; fields of the
\* record and a name that is no field; the state and previous_state fields.
KwargsIds == {"none", "data", "state"}
Kwargs(i) ==
    CASE i = "none" -> <<>>
      [] i = "data" -> [client_name |-> "Acme Corp", error_type |-> "LLM_ERROR",
                        no_such_field |-> "x"]
      [] i = "state" -> [state |-> "GENERATING_DECK", previous_state |-> "DONE"]

\* ------------------------------------------------------------------------
\* slack/messages.py: a message is its "text", the buttons among its blocks
\* and, for the regeneration notice, the version it shows.

ERROR_MESSAGES ==
    ( "INPUT_MISSING" :> "Please attach a meeting transcript (.md file)"
   @@ "INPUT_INVALID" :> "Transcript file appears empty or invalid"
   @@ "LANGUAGE_UNSUPPORTED" :> "Only English transcripts supported"
   @@ "DRIVE_PERMISSION" :> "Unable to access client folder"
   @@ "DRIVE_QUOTA" :> "Drive temporarily unavailable"
   @@ "DOCS_ERROR" :> "Failed to create Deal Analysis"
   @@ "SLIDES_ERROR" :> "Failed to create proposal deck"
   @@ "LLM_ERROR" :> "AI service temporarily unavailable"
   @@ "LLM_INVALID" :> "Unable to generate analysis"
   @@ "LLM_OFFLINE" :> "Local AI unavailable. Use cloud?"
   @@ "APPROVAL_UNCLEAR" :> "Please reply 'Yes' or 'No'"
   @@ "STATE_MISSING" :> "Lost track. Please start over" )

DEFAULT_ERROR_MESSAGE == "An unexpected error occurred"

Message(text, buttons, version) ==
    [text |-> text, buttons |-> buttons, version |-> version]

format_error(error_type) ==
    Message(IF error_type \in DOMAIN ERROR_MESSAGES
            THEN ERROR_MESSAGES[error_type]
            ELSE DEFAULT_ERROR_MESSAGE, "none", 0)

format_analyzing == Message("Analyzing transcript...", "none", 0)

format_generating_deck == Message("Generating proposal deck...", "none", 0)

format_regenerating(version) ==
    Message("Regenerating Deal Analysis (v{version})...", "none", version)

format_deck_complete == Message("Proposal deck created", "none", 0)

format_rejection_confirmed ==
    Message("Got it, no proposal deck will be created.", "none", 0)

format_fetch_failures == Message("Could not fetch: {urls_text}", "none", 0)

\* format_deal_analysis_complete(...)["blocks"] + [format_approval_buttons()]
format_deal_analysis_complete ==
    Message("Deal Analysis created", "approve_deck/reject_deck", 0)

\* The consent prompt with the cloud_consent_yes / cloud_consent_no buttons.
format_cloud_consent ==
    Message("Local AI unavailable. Use cloud?", "cloud_consent_yes/cloud_consent_no", 0)

\* ------------------------------------------------------------------------
\* utils/validation.py, utils/parsing.py and the string methods they use.
\* A file name is a sequence of characters; a missing string is <<>> or "".

lower(name) ==
    [i \in 1..Len(name) |->
        CASE name[i] = "M" -> "m" [] name[i] = "D" -> "d" [] name[i] = "A" -> "a"
          [] OTHER -> name[i]]

endswith(name, suffix) ==
    /\ Len(name) >= Len(suffix)
    /\ SubSeq(name, Len(name) - Len(suffix) + 1, Len(name)) = suffix

\* str.strip(): the text without its leading and trailing whitespace.
whitespace == {" ", "\n", "\t", "\r"}
RECURSIVE lstrip(_)
lstrip(text) ==
    IF text # "" /\ SubSeq(text, 1, 1) \in whitespace
    THEN lstrip(SubSeq(text, 2, Len(text)))
    ELSE text
RECURSIVE rstrip(_)
rstrip(text) ==
    IF text # "" /\ SubSeq(text, Len(text), Len(text)) \in whitespace
    THEN rstrip(SubSeq(text, 1, Len(text) - 1))
    ELSE text
strip(content) == rstrip(lstrip(content))

\* validate_transcript(file_path, content).is_valid
validate_transcript(file_path, content) ==
    /\ endswith(lower(file_path), <<".", "m", "d">>)
    /\ content # "" /\ strip(content) # ""

\* Position of the first "-" in a name, 0 when there is none.
find_dash(name) ==
    IF \E i \in 1..Len(name) : name[i] = "-"
    THEN CHOOSE i \in 1..Len(name) :
            name[i] = "-" /\ \A j \in 1..(i - 1) : name[j] # "-"
    ELSE 0

\* extract_client_name(filename); <<>> is None.
extract_client_name(filename) ==
    IF ~endswith(lower(filename), <<".", "m", "d">>) THEN <<>>
    ELSE IF find_dash(filename) = 0 THEN <<>>
    ELSE SubSeq(filename, 1, find_dash(filename) - 1)

\* extract_urls(text): the URLs of the text, each once, in order of first
\* occurrence.  The text is a sequence of words; a URL starts with "http".
RECURSIVE extract_urls(_)
extract_urls(text) ==
    IF text = <<>> THEN <<>>
    ELSE LET rest == extract_urls(SubSeq(text, 1, Len(text) - 1))
             word == text[Len(text)]
         IN  IF word \in {"https://acme.example", "http://news.example"}
                /\ \A i \in 1..Len(rest) : rest[i] # word
             THEN Append(rest, word)
             ELSE rest

\* ------------------------------------------------------------------------
\* llm/client.py.  A completion call either raises an exception of some
\* class or returns a response with some message content; the model draws
\* the outcome of each call in turn from a sequence.  A call of the client
\* leaves a log of the completion calls and of the time.sleep calls it made.

\* LLMClient.MAX_RETRIES and LLMClient.BACKOFF_SECONDS.
MAX_RETRIES == 3
BACKOFF_SECONDS == <<1, 2, 4>>

\* The exceptions a completion call raises: the three classes that client.py
\* imports from the openai package and one that is none of them.
Raised == {"APIConnectionError", "APIStatusError", "APITimeoutError", "RuntimeError"}

\* The message contents a completion returns: a text, the empty string,
\* whitespace, or None.
Contents == {"analysis", "", " ", "None"}

\* The classes of an exception (its __mro__).  In the openai package
\* APITimeoutError is a subclass of APIConnectionError.
mro(exc) ==
    CASE exc = "APIConnectionError" -> {"APIConnectionError", "APIError", "Exception"}
      [] exc = "APITimeoutError" ->
            {"APITimeoutError", "APIConnectionError", "APIError", "Exception"}
      [] exc = "APIStatusError" -> {"APIStatusError", "APIError", "Exception"}
      [] exc = "LLMError" -> {"LLMError", "Exception"}
      [] OTHER -> {exc, "Exception"}

\* Does "except classes" catch exc.
isinstance(exc, classes) == mro(exc) \cap classes # {}

\* LLMError(message, error_type) leaving the call, after the calls in log.
raise_LLMError(error_type, cause, log) ==
    [end |-> "raise", content |-> "None", error_type |-> error_type,
     cause |-> cause, log |-> log]

\* The call returns content.
return_content(content, log) ==
    [end |-> "return", content |-> content, error_type |-> "None",
     cause |-> "None", log |-> log]

\* The log entries: a completion call (the attempt in 1..MAX_RETRIES and what
\* it gave) and a time.sleep call.
create(attempt, outcome) ==
    [op |-> "create", attempt |-> attempt + 1, outcome |-> outcome, seconds |-> 0]
sleep(attempt, seconds) ==
    [op |-> "sleep", attempt |-> attempt + 1, outcome |-> "None", seconds |-> seconds]

\* A check that lets the empty string and whitespace through.
empty_none(content) == content = "None"

\* "not content or not content.strip()".
empty(content) == content \in {"None", ""} \/ strip(content) = ""

\* A loop that makes one iteration more.
in_range_inclusive(attempt) == attempt <= MAX_RETRIES

\* "for attempt in range(self.MAX_RETRIES)": is there another iteration.
in_range(attempt) == attempt < MAX_RETRIES

\* A sleep after every failed attempt, the last one too.
slept_always(attempt, log) ==
    Append(log, sleep(attempt, BACKOFF_SECONDS[attempt + 1]))

\* "if attempt < self.MAX_RETRIES - 1": the sleep before the next attempt.
slept(attempt, log) ==
    IF attempt < MAX_RETRIES - 1
    THEN Append(log, sleep(attempt, BACKOFF_SECONDS[attempt + 1]))
    ELSE log

\* The except clauses of _call_with_retry, in their order: does the
\* exception leave the loop as LLM_OFFLINE.  The first clause that catches a
\* raised exception is "except APIConnectionError".
offline(exc, attempt) ==
    isinstance(exc, {"APIConnectionError"}) /\ attempt = MAX_RETRIES - 1

\* LLMClient._call_with_retry from the iteration "attempt" on; outcomes[i]
\* is what the i-th completion call gives.
RECURSIVE retry_loop(_, _, _, _)
retry_loop(attempt, outcomes, last_error, log) ==
    IF ~in_range(attempt)
    THEN raise_LLMError("LLM_ERROR", last_error, log)
    ELSE IF outcomes[attempt + 1] \in Contents
    THEN IF empty(outcomes[attempt + 1])
         THEN raise_LLMError("LLM_INVALID", "None",
                             Append(log, create(attempt, outcomes[attempt + 1])))
         ELSE return_content(outcomes[attempt + 1],
                             Append(log, create(attempt, outcomes[attempt + 1])))
    ELSE IF offline(outcomes[attempt + 1], attempt)
    THEN raise_LLMError("LLM_OFFLINE", outcomes[attempt + 1],
                        Append(log, create(attempt, outcomes[attempt + 1])))
    ELSE retry_loop(attempt + 1, outcomes, outcomes[attempt + 1],
                    slept(attempt, Append(log, create(attempt, outcomes[attempt + 1]))))

\* LLMClient._call_with_retry.
_call_with_retry(outcomes) == retry_loop(0, outcomes, "None", <<>>)

\* LLMClient.__init__: the cloud part of a client, by config.cloud_provider
\* and whether its API key (and the SDK) is there.
LLMClient(cloud_provider, key) ==
    [_cloud_provider |-> cloud_provider,
     _cloud_client |-> cloud_provider \in {"openai", "anthropic"} /\ key,
     _cloud_model |-> IF cloud_provider \in {"openai", "anthropic"} /\ key
                      THEN cloud_provider ELSE "None"]

\* LLMClient.cloud_available.
cloud_available(self) == self._cloud_client

\* LLMClient._call_openai_cloud ("content or ''") and _call_anthropic (the
\* texts of the content blocks joined; None stands for no text block).
_call_openai_cloud(outcome) == IF outcome = "None" THEN "" ELSE outcome
_call_anthropic(outcome) == IF outcome = "None" THEN "" ELSE outcome

\* The loop of LLMClient._call_cloud from the iteration "attempt" on.
RECURSIVE cloud_loop(_, _, _, _, _)
cloud_loop(self, attempt, outcomes, last_error, log) ==
    IF ~in_range(attempt)
    THEN raise_LLMError("LLM_ERROR", last_error, log)
    ELSE IF outcomes[attempt + 1] \in Contents
    THEN IF empty(IF self._cloud_provider = "anthropic"
                  THEN _call_anthropic(outcomes[attempt + 1])
                  ELSE _call_openai_cloud(outcomes[attempt + 1]))
         THEN raise_LLMError("LLM_INVALID", "None",
                             Append(log, create(attempt, outcomes[attempt + 1])))
         ELSE return_content(IF self._cloud_provider = "anthropic"
                             THEN _call_anthropic(outcomes[attempt + 1])
                             ELSE _call_openai_cloud(outcomes[attempt + 1]),
                             Append(log, create(attempt, outcomes[attempt + 1])))
    ELSE cloud_loop(self, attempt + 1, outcomes, outcomes[attempt + 1],
                    slept(attempt, Append(log, create(attempt, outcomes[attempt + 1]))))

\* LLMClient._call_cloud.
_call_cloud(self, outcomes) ==
    IF ~self._cloud_client \/ self._cloud_model = "None"
    THEN raise_LLMError("LLM_ERROR", "None", <<>>)
    ELSE cloud_loop(self, 0, outcomes, "None", <<>>)

\* LLMClient.generate.
generate(self, outcomes, use_cloud) ==
    IF use_cloud THEN _call_cloud(self, outcomes) ELSE _call_with_retry(outcomes)

\* The clients of the configurations, and the outcome sequences: one call
\* more than the loop can make.
MaxCalls == 4
Clients ==
    {LLMClient("openai", TRUE), LLMClient("anthropic", TRUE), LLMClient("None", FALSE)}
OutcomeSeqs == [1..MaxCalls -> Raised \cup Contents]

\* ------------------------------------------------------------------------
\* web/fetcher.py.  WebFetcher and its class attributes.
WebFetcher == [MAX_RETRIES |-> 3, BACKOFF_SECONDS |-> <<1, 2>>, TIMEOUT |-> 30]

\* What one attempt (Request, urlopen, read, decode) gives: the decoded
\* page, or an exception: urllib.error.HTTPError with its code,
\* urllib.error.URLError, or another Exception (a socket timeout while
\* reading, an unknown charset).
Response(content) == [exc |-> "None", code |-> 0, content |-> content]
HTTPError(code) == [exc |-> "HTTPError", code |-> code, content |-> "None"]
URLError == [exc |-> "URLError", code |-> 0, content |-> "None"]
OtherError == [exc |-> "Exception", code |-> 0, content |-> "None"]
Attempts ==
    {Response("<html>"), URLError, OtherError}
        \cup {HTTPError(code) : code \in {304, 399, 400, 404, 499, 500, 503}}
AttemptSeqs == [1..MaxCalls -> Attempts]

\* The log entry of an attempt of fetch_url.
urlopen(attempt, outcome) ==
    [op |-> "urlopen", attempt |-> attempt + 1, outcome |-> outcome, seconds |-> 0]

\* A fetcher that retries client errors too.
client_error_never(outcome) == FALSE

\* "except urllib.error.HTTPError as e: ... if 400 <= e.code < 500: break".
client_error(outcome) ==
    outcome.exc = "HTTPError" /\ 400 <= outcome.code /\ outcome.code < 500

\* A loop of one iteration more.
fetch_in_range_inclusive(attempt) == attempt <= WebFetcher.MAX_RETRIES

\* "for attempt in range(self.MAX_RETRIES)": is there another iteration.
fetch_in_range(attempt) == attempt < WebFetcher.MAX_RETRIES

\* "if attempt < self.MAX_RETRIES - 1: time.sleep(self.BACKOFF_SECONDS[attempt])".
backoff(attempt, log) ==
    IF attempt < WebFetcher.MAX_RETRIES - 1
    THEN Append(log, sleep(attempt, WebFetcher.BACKOFF_SECONDS[attempt + 1]))
    ELSE log

\* What fetch_url returns, after the calls in log.
fetch_result(content, log) == [content |-> content, log |-> log]

\* The loop of WebFetcher.fetch_url from the iteration "attempt" on;
\* outcomes[i] is what the i-th attempt gives.
RECURSIVE fetch_loop(_, _, _)
fetch_loop(attempt, outcomes, log) ==
    IF ~fetch_in_range(attempt)
    THEN fetch_result("None", log)
    ELSE IF outcomes[attempt + 1].exc = "None"
    THEN fetch_result(outcomes[attempt + 1].content,
                      Append(log, urlopen(attempt, outcomes[attempt + 1])))
    ELSE IF client_error(outcomes[attempt + 1])
    THEN fetch_result("None", Append(log, urlopen(attempt, outcomes[attempt + 1])))
    ELSE fetch_loop(attempt + 1, outcomes,
                    backoff(attempt, Append(log, urlopen(attempt, outcomes[attempt + 1]))))

\* WebFetcher.fetch_url.
fetch_url(outcomes) == fetch_loop(0, outcomes, <<>>)

\* WebFetcher.fetch_multiple.  The ThreadPoolExecutor keeps the submitted
\* calls in a queue in the order of submit; each of its at most max_workers
\* threads takes the first queued call when it is free.  futures[i] is the
\* future of the i-th submit: PENDING, RUNNING or FINISHED, with the value
\* fetch_url returned; as_completed yields a finished future that it has not
\* yielded yet, whichever.  fetch_url catches every Exception, so that
\* future.result() raises none and lines 123-125 are never run.
Urls == {"https://a.example", "https://b.example", "https://c.example"}
MaxUrls == 3
UrlLists ==
    UNION {[1..n -> Urls] : n \in 0..MaxUrls}
        \cup {<<"https://a.example", "https://b.example", "https://c.example",
                "https://a.example", "https://b.example", "https://c.example">>}
Workers == {1, 2, 5}

\* The state of a fetch_multiple call after the submits (or at the early
\* return for an empty list).
fetch_multiple(urls, max_workers) ==
    [pc |-> IF urls = <<>> THEN "return" ELSE "as_completed",
     urls |-> urls, max_workers |-> max_workers,
     futures |-> [i \in 1..Len(urls) |->
                    [url |-> urls[i], state |-> "PENDING", result |-> "None",
                     yielded |-> FALSE]],
     results |-> [url \in {} |-> "None"],
     returned |-> <<>>]

\* "results.get(url)".
get(results, url) == IF url \in DOMAIN results THEN results[url] ELSE "None"

\* "results[url] = ...": the entry of the dict for the key url is replaced.
setitem(results, url, value) ==
    [key \in DOMAIN results \cup {url} |-> IF key = url THEN value ELSE results[key]]

\* The number of calls a thread of the pool is running.
running_calls(futures) ==
    Cardinality({i \in 1..Len(futures) : futures[i].state = "RUNNING"})

\* ------------------------------------------------------------------------
\* llm/context_builder.py.  A str is a string; len, slices and + are Len,
\* SubSeq and \o.

\* ContextBuilder and its class attributes.
ContextBuilder ==
    [MAX_TRANSCRIPT_TOKENS |-> 24000, MAX_REFERENCES_TOKENS |-> 10000,
     MAX_WEB_TOKENS |-> 6000, RESERVED_OUTPUT_TOKENS |-> 8000,
     CHARS_PER_TOKEN |-> 4, CHUNK_SIZE_TOKENS |-> 6000]

\* "s * n".
RECURSIVE rep(_, _)
rep(s, n) ==
    IF n <= 0 THEN ""
    ELSE IF n % 2 = 1 THEN s \o rep(s, n - 1)
    ELSE rep(s \o s, n \div 2)

\* str.find(sub), counted from 1; 0 when sub does not occur.
first(found) == IF found = {} THEN 0 ELSE CHOOSE i \in found : \A j \in found : i <= j
find(text, sub) ==
    first({i \in 1..(Len(text) - Len(sub) + 1) : SubSeq(text, i, i + Len(sub) - 1) = sub})

\* str.rfind(sub) for a character: its last index, counted from 0, or -1.
rfind(text, sub) ==
    IF \E k \in 1..Len(text) : SubSeq(text, Len(text) + 1 - k, Len(text) + 1 - k) = sub
    THEN Len(text) - (CHOOSE k \in 1..Len(text) :
             /\ SubSeq(text, Len(text) + 1 - k, Len(text) + 1 - k) = sub
             /\ \A j \in 1..(k - 1) :
                   SubSeq(text, Len(text) + 1 - j, Len(text) + 1 - j) # sub)
    ELSE -1

\* sep.join(parts).
RECURSIVE join(_, _)
join(sep, parts) ==
    IF parts = <<>> THEN ""
    ELSE IF Len(parts) = 1 THEN parts[1]
    ELSE parts[1] \o sep \o join(sep, Tail(parts))

\* text.split(sep) for a separator, text.split() for whitespace, and
\* re.split(r"(?<=[.!?])\s+", text): the pieces between the whitespace runs
\* that follow a ".", "!" or "?".
RECURSIVE split(_, _)
split_at(text, sep, pos) ==
    IF pos = 0 THEN <<text>>
    ELSE <<SubSeq(text, 1, pos - 1)>> \o split(SubSeq(text, pos + Len(sep), Len(text)), sep)
split(text, sep) == split_at(text, sep, find(text, sep))
word_end(text) ==
    IF \E i \in 1..Len(text) : SubSeq(text, i, i) \in whitespace
    THEN (CHOOSE i \in 1..Len(text) :
             /\ SubSeq(text, i, i) \in whitespace
             /\ \A j \in 1..(i - 1) : SubSeq(text, j, j) \notin whitespace) - 1
    ELSE Len(text)
RECURSIVE split_words(_)
split_words(text) ==
    IF lstrip(text) = "" THEN <<>>
    ELSE <<SubSeq(lstrip(text), 1, word_end(lstrip(text)))>>
            \o split_words(SubSeq(lstrip(text), word_end(lstrip(text)) + 1,
                                  Len(lstrip(text))))
sentence_end(text) ==
    first({i \in 1..(Len(text) - 1) :
              /\ SubSeq(text, i, i) \in {".", "!", "?"}
              /\ SubSeq(text, i + 1, i + 1) \in whitespace})
RECURSIVE split_sentences(_)
split_sentences(text) ==
    IF sentence_end(text) = 0 THEN <<text>>
    ELSE <<SubSeq(text, 1, sentence_end(text))>>
            \o split_sentences(lstrip(SubSeq(text, sentence_end(text) + 1, Len(text))))

\* _TIKTOKEN_AVAILABLE: whether "import tiktoken" succeeded when the module
\* was loaded (lines 14-21).
VARIABLE _TIKTOKEN_AVAILABLE

\* _ENCODING.encode(text) of tiktoken's cl100k_base, as the places where its
\* tokens begin, for a text of digits, ".", single spaces and blank lines:
\* the pattern of the encoding cuts a run of digits into groups of up to
\* three digits, and every such group, a run of "." and a run of whitespace
\* is one token of its vocabulary.
digits == {"0", "1", "2", "3", "4", "5", "6", "7", "8", "9"}
digits_before(text, i) ==
    i - 1 - (CHOOSE j \in 0..(i - 1) :
                /\ j = 0 \/ SubSeq(text, j, j) \notin digits
                /\ \A k \in (j + 1)..(i - 1) : SubSeq(text, k, k) \in digits)
encode(text) ==
    {i \in 1..Len(text) :
        IF SubSeq(text, i, i) \in digits THEN digits_before(text, i) % 3 = 0
        ELSE IF SubSeq(text, i, i) \in whitespace
        THEN i = 1 \/ SubSeq(text, i - 1, i - 1) \notin whitespace
        ELSE i = 1 \/ SubSeq(text, i - 1, i - 1) \in digits \cup whitespace}

\* The estimate without tiktoken: int(len(text.split()) * 1.3).
word_estimate(text) ==
    (Cardinality({i \in 1..Len(text) :
                     /\ SubSeq(text, i, i) \notin whitespace
                     /\ i = 1 \/ SubSeq(text, i - 1, i - 1) \in whitespace}) * 13) \div 10

\* count_tokens.
count_tokens(text) ==
    IF text = "" THEN 0
    ELSE IF _TIKTOKEN_AVAILABLE THEN Cardinality(encode(text))
    ELSE word_estimate(text)

\* The three packing loops of chunk_text, _split_large_block and
\* _split_by_words: pieces are paragraphs, sentences or words; current is
\* current_chunk (current_words), chunks the chunks so far.
separator(level) == IF level = "paragraph" THEN "\n\n" ELSE " "
separator_tokens(level, current) ==
    IF current = <<>> THEN 0
    ELSE IF level = "paragraph" THEN count_tokens("\n\n") ELSE 1
flush(level, current, chunks) ==
    IF current = <<>> THEN chunks ELSE Append(chunks, join(separator(level), current))

RECURSIVE pack(_, _, _, _, _, _, _)
RECURSIVE pack_piece(_, _, _, _, _, _, _, _, _)
RECURSIVE _split_large_block(_, _)
RECURSIVE _split_by_words(_, _)

\* A piece that exceeds max_tokens by itself.
split_further(level, piece, max_tokens) ==
    CASE level = "paragraph" -> _split_large_block(piece, max_tokens)
      [] level = "sentence" -> _split_by_words(piece, max_tokens)
      [] OTHER -> <<SubSeq(piece, 1, IF max_tokens * 4 < Len(piece)
                                     THEN max_tokens * 4 ELSE Len(piece))>>

\* The body of a loop for the piece pieces[k], stripped, and its tokens.
pack_piece(level, pieces, k, max_tokens, current, current_tokens, chunks, piece,
           piece_tokens) ==
    IF piece = ""
    THEN pack(level, pieces, k + 1, max_tokens, current, current_tokens, chunks)
    ELSE IF piece_tokens > max_tokens
    THEN pack(level, pieces, k + 1, max_tokens, <<>>, 0,
              flush(level, current, chunks) \o split_further(level, piece, max_tokens))
    ELSE IF current_tokens + separator_tokens(level, current) + piece_tokens > max_tokens
    THEN pack(level, pieces, k + 1, max_tokens, <<piece>>, piece_tokens,
              flush(level, current, chunks))
    ELSE pack(level, pieces, k + 1, max_tokens, Append(current, piece),
              current_tokens + separator_tokens(level, current) + piece_tokens, chunks)

pack(level, pieces, k, max_tokens, current, current_tokens, chunks) ==
    IF k > Len(pieces) THEN flush(level, current, chunks)
    ELSE pack_piece(level, pieces, k, max_tokens, current, current_tokens, chunks,
                    strip(pieces[k]), count_tokens(strip(pieces[k])))

_split_by_words(text, max_tokens) ==
    pack("word", split_words(text), 1, max_tokens, <<>>, 0, <<>>)

_split_large_block(text, max_tokens) ==
    IF Len(split_sentences(text)) > 1
    THEN pack("sentence", split_sentences(text), 1, max_tokens, <<>>, 0, <<>>)
    ELSE _split_by_words(text, max_tokens)

chunk_text(text, max_tokens) ==
    IF text = "" \/ max_tokens <= 0 THEN <<>>
    ELSE IF count_tokens(text) <= max_tokens THEN <<text>>
    ELSE pack("paragraph", split(text, "\n\n"), 1, max_tokens, <<>>, 0, <<>>)

\* ContextBuilder._estimate_tokens.
_estimate_tokens(text) == Len(text) \div ContextBuilder.CHARS_PER_TOKEN

\* A merge that keeps the entries as they are, whitespace-only ones too.
non_empty_verbatim(transcript) == SelectSeq(transcript, LAMBDA t : t # "")

\* "[t.strip() for t in transcript if t.strip()]".
non_empty_stripped(transcript) ==
    SelectSeq([i \in 1..Len(transcript) |-> strip(transcript[i])], LAMBDA t : t # "")

\* ContextBuilder._merge_transcripts; a transcript is [str |-> text] or
\* [list |-> texts].
_merge_transcripts(transcript) ==
    IF "str" \in DOMAIN transcript THEN transcript.str
    ELSE IF non_empty_stripped(transcript.list) = <<>> THEN ""
    ELSE IF Len(non_empty_stripped(transcript.list)) = 1
    THEN non_empty_stripped(transcript.list)[1]
    ELSE join("\n\n",
              [i \in 1..Len(non_empty_stripped(transcript.list)) |->
                  "--- Transcript " \o ToString(i) \o " ---\n\n"
                      \o non_empty_stripped(transcript.list)[i]])

\* ContextBuilder._truncate_to_budget: (truncated_text, was_truncated).
\* cut, taking a boundary at the very start of the slice too.
cut_anywhere(slice_, pos, otherwise) ==
    IF pos >= 0 THEN [text |-> SubSeq(slice_, 1, pos), truncated |-> TRUE] ELSE otherwise

cut(slice_, pos, otherwise) ==
    IF pos > 0 THEN [text |-> SubSeq(slice_, 1, pos), truncated |-> TRUE] ELSE otherwise
_truncate_to_budget(text, max_chars) ==
    IF Len(text) <= max_chars THEN [text |-> text, truncated |-> FALSE]
    ELSE cut(SubSeq(text, 1, max_chars), rfind(SubSeq(text, 1, max_chars), "\n"),
             cut(SubSeq(text, 1, max_chars), rfind(SubSeq(text, 1, max_chars), " "),
                 [text |-> SubSeq(text, 1, max_chars), truncated |-> TRUE]))

\* min(a, b).
min(a, b) == IF a <= b THEN a ELSE b

\* The loop of _build_section at the item idx (from 1); budgets are the
\* content_budget of the items so far.
RECURSIVE section_loop(_, _, _, _, _, _, _)
section_loop(non_empty, idx, item_prefix, per_item, remaining, parts, budgets) ==
    LET item_header == item_prefix \o " " \o ToString(idx) \o "\n"
        content_budget == min(remaining - Len(item_header), per_item)
        part == item_header \o _truncate_to_budget(non_empty[idx], content_budget).text
    IN  IF idx > Len(non_empty) \/ content_budget <= 0
        THEN [parts |-> parts, budgets |-> budgets]
        ELSE section_loop(non_empty, idx + 1, item_prefix,
                          IF Len(non_empty) - idx > 0
                          THEN (remaining - Len(part)) \div (Len(non_empty) - idx)
                          ELSE per_item,
                          remaining - Len(part), Append(parts, part),
                          Append(budgets, content_budget))

\* A section that counts every part: the parts joined under the header.
section_text(section_header, built) ==
    [text |-> IF built.parts = <<>> THEN ""
              ELSE section_header \o "\n\n" \o join("\n\n", built.parts),
     included |-> Len(built.parts), budgets |-> built.budgets]

\* ContextBuilder._build_section: (section_text, items_included_count), and
\* the content budgets it allotted.
_build_section(items, max_chars, section_header, item_prefix) ==
    IF non_empty_stripped(items) = <<>> \/ max_chars - (Len(section_header) + 2) <= 0
    THEN [text |-> "", included |-> 0, budgets |-> <<>>]
    ELSE section_text(section_header,
             section_loop(non_empty_stripped(items), 1, item_prefix,
                 (max_chars - (Len(section_header) + 2)) \div Len(non_empty_stripped(items)),
                 max_chars - (Len(section_header) + 2), <<>>, <<>>))

\* The callbacks: a summarizer is "None" or what it returns for a chunk (a
\* text, the empty string, or "echo" for the chunk itself); on_status is
\* there or not.
\* The log holds the calls of both in their order.
summarize(summarizer, chunk) == IF summarizer = "echo" THEN chunk ELSE summarizer
status(on_status, message, log) ==
    IF on_status THEN Append(log, [op |-> "on_status", arg |-> message]) ELSE log

\* A loop that announces every part, a single one too.
part_status_always(on_status, chunks) == on_status

\* "if on_status and len(chunks) > 1".
part_status(on_status, chunks) == on_status /\ Len(chunks) > 1

\* The loop of _summarize_transcript at the chunk i.
RECURSIVE summarize_loop(_, _, _, _, _, _)
summarize_loop(chunks, i, summarizer, on_status, summaries, log) ==
    IF i > Len(chunks)
    THEN [combined |-> join("\n\n---\n\n", summaries), log |-> log]
    ELSE summarize_loop(chunks, i + 1, summarizer, on_status,
             IF summarize(summarizer, chunks[i]) # ""
             THEN Append(summaries, "## Summary of Part " \o ToString(i) \o "\n\n"
                                        \o summarize(summarizer, chunks[i]))
             ELSE summaries,
             Append(status(part_status(on_status, chunks),
                           "Summarizing part " \o ToString(i) \o "/"
                               \o ToString(Len(chunks)) \o "...",
                           log),
                    [op |-> "summarizer", arg |-> chunks[i]]))

\* ContextBuilder._summarize_transcript, after the calls in log.
_summarize_transcript(transcript, summarizer, on_status, log) ==
    summarize_loop(chunk_text(transcript, ContextBuilder.CHUNK_SIZE_TOKENS), 1,
                   summarizer, on_status, <<>>, log)

\* build_context, lines 342-351: the transcript section from the text that
\* is left after the summarizing, if any.
section_of(transcript_original_tokens, truncated, transcript_summarized, log) ==
    [text |-> "## TRANSCRIPT\n\n" \o truncated.text,
     transcript_included |-> TRUE,
     transcript_truncated |-> truncated.truncated,
     transcript_summarized |-> transcript_summarized,
     transcript_original_tokens |-> transcript_original_tokens,
     log |-> log]
truncated_section(transcript_original_tokens, summarized, transcript_summarized) ==
    section_of(transcript_original_tokens,
               _truncate_to_budget(summarized.combined,
                   ContextBuilder.MAX_TRANSCRIPT_TOKENS * ContextBuilder.CHARS_PER_TOKEN),
               transcript_summarized, summarized.log)

\* A condition that asks for no summarizer.
should_summarize_over(transcript_original_tokens, summarizer) ==
    transcript_original_tokens > ContextBuilder.MAX_TRANSCRIPT_TOKENS

\* "if transcript_original_tokens > self.MAX_TRANSCRIPT_TOKENS and summarizer".
should_summarize(transcript_original_tokens, summarizer) ==
    /\ transcript_original_tokens > ContextBuilder.MAX_TRANSCRIPT_TOKENS
    /\ summarizer # "None"

\* build_context, lines 315-351.
transcript_section(transcript_stripped, summarizer, on_status) ==
    IF transcript_stripped = ""
    THEN [text |-> "", transcript_included |-> FALSE, transcript_truncated |-> FALSE,
          transcript_summarized |-> FALSE,
          transcript_original_tokens |-> _estimate_tokens(transcript_stripped),
          log |-> <<>>]
    ELSE IF should_summarize(_estimate_tokens(transcript_stripped), summarizer)
    THEN truncated_section(_estimate_tokens(transcript_stripped),
             _summarize_transcript(transcript_stripped, summarizer, on_status,
                 status(on_status, "Transcript exceeded limit, summarizing...", <<>>)),
             TRUE)
    ELSE truncated_section(_estimate_tokens(transcript_stripped),
                           [combined |-> transcript_stripped, log |-> <<>>], FALSE)

\* A list of sections with the empty ones left in.
all_sections(sections) == sections

\* "[s for s in [transcript_text, refs_text, web_text] if s]".
non_empty_sections(sections) == SelectSeq(sections, LAMBDA s : s # "")

\* build_context, lines 363-394: the ContextBuildResult, with the three
\* sections and the log of the callbacks.
assemble(transcript, refs, web, references_total_count, web_total_count) ==
    [context |-> join("\n\n---\n\n",
                      non_empty_sections(<<transcript.text, refs.text, web.text>>)),
     transcript_included |-> transcript.transcript_included,
     transcript_truncated |-> transcript.transcript_truncated,
     transcript_summarized |-> transcript.transcript_summarized,
     transcript_original_tokens |-> transcript.transcript_original_tokens,
     references_included_count |-> refs.included,
     references_total_count |-> references_total_count,
     web_included_count |-> web.included,
     web_total_count |-> web_total_count,
     estimated_tokens |->
         _estimate_tokens(join("\n\n---\n\n",
             non_empty_sections(<<transcript.text, refs.text, web.text>>))),
     sections |-> <<transcript.text, refs.text, web.text>>,
     log |-> transcript.log]

\* ContextBuilder.build_context.
build_context(transcript, references, web_content, summarizer, on_status) ==
    assemble(transcript_section(strip(_merge_transcripts(transcript)), summarizer,
                                on_status),
             _build_section(references,
                 ContextBuilder.MAX_REFERENCES_TOKENS * ContextBuilder.CHARS_PER_TOKEN,
                 "## REFERENCE MATERIALS", "### Reference"),
             _build_section(web_content,
                 ContextBuilder.MAX_WEB_TOKENS * ContextBuilder.CHARS_PER_TOKEN,
                 "## WEB RESEARCH", "### Source"),
             Len(references), Len(web_content))

\* ------------------------------------------------------------------------
\* slack/handlers.py.  A handler runs from its first line to a return or an
\* uncaught exception; h is what it has done so far: pc is "run", "return"
\* or "raise", m its local StateMachine, new_version its local of that
\* name, said the messages passed to say, calls the external calls with the
\* record's state at the call, events the transitions that succeeded, llm
\* its LLMClient and llm_error what its "except LLMError" or "except
\* Exception" after the LLM call caught.  A statement after the end of the
\* run does nothing.

enter(handler, thread_ts, channel) ==
    [handler |-> handler, thread_ts |-> thread_ts, channel |-> channel,
     pc |-> "run", m |-> StateMachine(FALSE), new_version |-> 0,
     llm |-> LLMClient("None", FALSE), llm_error |-> "None",
     said |-> <<>>, calls |-> <<>>, events |-> <<>>]

running(h) == h.pc = "run"

\* Is there a record of the handler's thread in its machine.
has_thread(h) == _make_key(h.thread_ts, h.channel) \in DOMAIN h.m._cache

\* thread_state: the cached record of the handler's thread.
thread(h) == h.m._cache[_make_key(h.thread_ts, h.channel)]

say(h, message) ==
    IF running(h) THEN [h EXCEPT !.said = Append(@, message)] ELSE h

return(h) == IF running(h) THEN [h EXCEPT !.pc = "return"] ELSE h

\* if cond: return
return_if(h, cond) == IF running(h) /\ cond THEN return(h) ELSE h

\* if cond: say(message); return
say_return_if(h, cond, message) ==
    IF running(h) /\ cond THEN return(say(h, message)) ELSE h

\* if <test of thread_state>: return
return_if_thread(h, test(_)) ==
    IF running(h) /\ test(thread(h)) THEN return(h) ELSE h

\* if <test of thread_state>: say(message); return
say_return_if_thread(h, test(_), message) ==
    IF running(h) /\ test(thread(h)) THEN return(say(h, message)) ELSE h

\* state_machine = StateMachine()
new_machine(h) == IF running(h) THEN [h EXCEPT !.m = StateMachine(FALSE)] ELSE h

\* thread_state = state_machine.get_state(thread_ts, channel, user_id)
do_get_state(h, user_id, now) ==
    IF running(h)
    THEN [h EXCEPT !.m = get_state(h.m, <<>>, h.thread_ts, h.channel, user_id, now).m]
    ELSE h

\* The run after a transition call on the record was, with result r.
after_transition(h, was, r) ==
    IF r.raised
    THEN [h EXCEPT !.m = r.m, !.pc = "raise"]
    ELSE [h EXCEPT !.m = r.m,
                   !.events = Append(@,
                      [event |-> r.event,
                       from |-> r.current_state,
                       to |-> r.state.state,
                       version_before |-> was.deal_analysis_version,
                       version_after |-> r.state.deal_analysis_version])]

\* state_machine.transition(thread_ts=..., channel_id=..., event=..., **kwargs);
\* InvalidTransitionError is caught by no handler.
do_transition(h, event, kwargs, now) ==
    IF ~running(h) THEN h
    ELSE after_transition(h,
             get_state(h.m, <<>>, h.thread_ts, h.channel, "", now).state,
             transition(h.m, <<>>, h.thread_ts, h.channel, event, kwargs, now))

\* A call of an external service: the LLM client, Drive, Docs, Slides.
call(h, fn, transcript, use_cloud) ==
    IF running(h)
    THEN [h EXCEPT !.calls = Append(@,
            [fn |-> fn,
             state |-> IF has_thread(h) THEN thread(h).state ELSE "None",
             transcript |-> transcript,
             use_cloud |-> use_cloud])]
    ELSE h

\* A failed step that is only reported: the error message, then return.
step_reported(h, error_type, now) == return(say(h, format_error(error_type)))

\* A step that fails with an exception the handler catches: the FAILED
\* transition with the error type, then the error message, then return.
step_failed(h, error_type, now) ==
    return(say(do_transition(h, "FAILED",
                   [error_type |-> error_type, error_message |-> "str(e)"], now),
               format_error(error_type)))

\* try: <a call of a service> except Exception: FAILED, message, return
try(h, fn, outcome, error_type, now) ==
    IF outcome = "raise"
    THEN step_failed(call(h, fn, <<>>, FALSE), error_type, now)
    ELSE call(h, fn, <<>>, FALSE)

\* llm = LLMClient(config)
new_llm(h, self) == IF running(h) THEN [h EXCEPT !.llm = self] ELSE h

\* The clients the configuration can give a running handler.
ClientsOf(h) == IF running(h) THEN Clients ELSE {LLMClient("None", FALSE)}

\* The LLM call raised: e is the error_type of the LLMError, or "Exception".
caught(h, e) == IF running(h) THEN [h EXCEPT !.llm_error = e] ELSE h

\* except LLMError as e / except Exception as e, after an LLM call whose
\* outcome is llm: "ok", the error_type of the LLMError, or "Exception".
except_llm(h, llm, now) ==
    IF llm = "ok" THEN h
    ELSE IF llm = "Exception" THEN step_failed(caught(h, llm), "LLM_ERROR", now)
    ELSE step_failed(caught(h, llm), llm, now)

\* The same in handle_analyse_command with the error message in place of
\* the consent buttons.
except_llm_or_error(h, llm, now) == except_llm(h, llm, now)

\* The same in handle_analyse_command, which shows the consent buttons
\* instead of the error if LLM is offline and cloud is available.
except_llm_or_consent(h, llm, now) ==
    IF llm = "LLM_OFFLINE" /\ cloud_available(h.llm)
    THEN return(say(do_transition(caught(h, llm), "FAILED",
                        [error_type |-> llm, error_message |-> "str(e)"], now),
                    format_cloud_consent))
    ELSE except_llm(h, llm, now)

\* llm.generate_deal_analysis(transcript=thread_state.input_transcript_content, ...)
generate_from_stored(h, use_cloud) ==
    IF running(h)
    THEN call(h, "generate_deal_analysis", thread(h).input_transcript_content, use_cloud)
    ELSE h

\* Share doc with user (DM) or channel members; a failure is only logged.
share(h, channel_type) ==
    IF channel_type = "im"
    THEN call(h, "share_with_user_by_id", <<>>, FALSE)
    ELSE call(h, "share_with_channel_members", <<>>, FALSE)

\* The same with thread_state.channel_type.
share_stored(h) == IF running(h) THEN share(h, thread(h).channel_type) ELSE h

\* The loop over md_files of handle_analyse_command: downloaded[id] is the
\* content urlopen returns for a file, or "raise".
RECURSIVE download_files(_, _, _, _, _)
download_files(md_files, i, downloaded, transcript_parts, file_ids) ==
    IF i > Len(md_files)
    THEN [ok |-> TRUE, transcript_parts |-> transcript_parts, file_ids |-> file_ids]
    ELSE IF \/ md_files[i].url_private_download = ""
            \/ downloaded[md_files[i].id] = "raise"
            \/ ~validate_transcript(md_files[i].name, downloaded[md_files[i].id])
    THEN [ok |-> FALSE, transcript_parts |-> transcript_parts, file_ids |-> file_ids]
    ELSE download_files(md_files, i + 1, downloaded,
                        Append(transcript_parts, downloaded[md_files[i].id]),
                        Append(file_ids, md_files[i].id))

\* message.get("thread_ts") or message.get("ts")
or(a, b) == IF a # <<>> THEN a ELSE b

\* [f for f in files if f.get("name", "").lower().endswith(".md")]
md_files_of(files) ==
    SelectSeq(files, LAMBDA f : endswith(lower(f.name), <<".", "m", "d">>))

\* extract_client_name(first_file_name) or "unknown-client"
client_name_of(md_files) ==
    IF md_files = <<>> THEN <<>>
    ELSE IF extract_client_name(md_files[1].name) # <<>>
    THEN extract_client_name(md_files[1].name)
    ELSE <<"unknown-client">>

\* [f for f in files if f.get("name", "").lower().endswith((".docx", ".md"))]
valid_files_of(files) ==
    SelectSeq(files,
              LAMBDA f : \/ endswith(lower(f.name), <<".", "d", "o", "c", "x">>)
                         \/ endswith(lower(f.name), <<".", "m", "d">>))

\* new_version = thread_state.deal_analysis_version + 1
set_new_version(h) ==
    IF running(h)
    THEN [h EXCEPT !.new_version = thread(h).deal_analysis_version + 1]
    ELSE h

\* ------------------------------------------------------------------------
\* What Slack delivers to the handlers and what the services answer.

\* Attached files: name, url_private_download ("" when absent) and id.
File(name, url, id) == [name |-> name, url_private_download |-> url, id |-> id]

TranscriptFile ==
    File(<<"a", "c", "m", "e", "-", "c", "a", "l", "l", ".", "m", "d">>,
         "https://files.slack.com/F1", "F1")
SecondTranscriptFile ==
    File(<<"n", "o", "t", "e", "s", ".", "M", "D">>,
         "https://files.slack.com/F2", "F2")
DocxFile ==
    File(<<"a", "c", "m", "e", ".", "d", "o", "c", "x">>,
         "https://files.slack.com/F3", "F3")
NoUrlFile ==
    File(<<"a", "c", "m", "e", "-", "x", ".", "m", "d">>, "", "F4")

\* message.get("files", [])
FileLists ==
    { <<>>, <<DocxFile>>, <<TranscriptFile>>,
      <<TranscriptFile, SecondTranscriptFile>>, <<NoUrlFile>> }

\* What urlopen(...).read() gives per file id: a content or "raise".
Downloads ==
    { ("F1" :> "call notes A" @@ "F2" :> "call notes B" @@ "F3" :> "docx" @@ "F4" :> "x"),
      ("F1" :> "raise" @@ "F2" :> "call notes B" @@ "F3" :> "raise" @@ "F4" :> "x"),
      ("F1" :> "call notes A" @@ "F2" :> " " @@ "F3" :> "docx" @@ "F4" :> "x") }

\* message.get("text", ""), as words.
Texts ==
    { <<"Analyse">>,
      <<"Analyse", "https://acme.example", "see", "https://acme.example">> }

\* The thread, channel and user fields of a message event or of an action
\* payload: in a thread; and at top level (no thread_ts), without a user,
\* without a channel.
Envelopes ==
    { [thread_ts |-> p[1], ts |-> <<"9">>, channel |-> p[2], user |-> "U001"]
        : p \in Pairs }
    \cup
    { [thread_ts |-> <<>>, ts |-> <<"2">>, channel |-> <<"C", "_", "1">>, user |-> "U001"],
      [thread_ts |-> <<"2">>, ts |-> <<"9">>, channel |-> <<"C", "_", "1">>, user |-> ""],
      [thread_ts |-> <<"2">>, ts |-> <<"9">>, channel |-> <<>>, user |-> "U001"] }

MessageOf(env, channel_type, files, text) ==
    [thread_ts |-> env.thread_ts, ts |-> env.ts, channel |-> env.channel,
     user |-> env.user, channel_type |-> channel_type, files |-> files,
     text |-> text]

\* The outcomes of a call of a service that the run h makes next: it
\* returns or it raises; a run that is over makes no call.
Outcomes(h) == IF running(h) THEN {"ok", "raise"} ELSE {"ok"}

\* The outcomes of an LLM call: "ok", the error_type of an LLMError, or
\* another Exception.
LLMOutcomes(h) ==
    IF running(h)
    THEN {"ok", "LLM_OFFLINE", "LLM_ERROR", "LLM_INVALID", "Exception"}
    ELSE {"ok"}

VARIABLES
    sm,      \* the StateMachine instance: _storage (is there one) and _cache
    files,   \* the JSON files of the storage directory, by path
    clock,   \* the last reading of datetime.utcnow()
    ret,     \* the last step: the call, its key and event, the state it found
             \* at the key, whether it raised InvalidTransitionError, and the
             \* storage.load calls it made
    loads,   \* storage.load calls per key on this instance (0, 1, many = 2)
    run,     \* the last run of a handler, from its first line to its end
    recorded,\* per (thread_ts, channel): the input_transcript_content that
             \* handle_analyse_command last passed on ANALYSE_REQUESTED
    generating, \* a call of LLMClient.generate: the client, use_cloud, what
             \* the completion calls will give, and the result once it is over
    fetching,\* a call of WebFetcher.fetch_url: what its attempts will give, and
             \* the result once it is over
    pool,    \* a call of WebFetcher.fetch_multiple: its futures, its results
             \* dict and what it returned
    building \* a call of the context builder

\* Two transition calls for one conversation that run at the same time on
\* the machine, each with its event, its place in the body of transition
\* and its local new_state, and the machine and the files they started from.
VARIABLE threads

vars ==
    <<sm, files, clock, ret, loads, run, recorded, generating, fetching, pool,
      building, _TIKTOKEN_AVAILABLE, threads>>

\* A generate call that has not begun, and no call at all.
Calling(self, use_cloud, outcomes) ==
    [pc |-> "call", self |-> self, use_cloud |-> use_cloud, outcomes |-> outcomes,
     result |-> return_content("None", <<>>)]
NoCall == Calling(LLMClient("None", FALSE), FALSE, <<>>)

\* A fetch_url call that has not begun, and no call at all.
Fetching(outcomes) ==
    [pc |-> "call", outcomes |-> outcomes, result |-> fetch_result("None", <<>>)]
NoFetch == Fetching(<<>>)

\* No fetch_multiple call.
NoPool == [fetch_multiple(<<>>, 5) EXCEPT !.pc = "none"]

\* No transition calls at the same time.
NoThreads == [calls |-> <<>>, before |-> <<>>]

\* No call of the context builder.
NoBuild == [op |-> "None", pc |-> "none"]

\* The record of a call that is no transition.
Returned(op, key) ==
    [op |-> op, key |-> key, event |-> "None", current_state |-> "None",
     raised |-> FALSE, loads |-> 0]

\* The load counter after n more loads of key, saturating at 2.
Counted(key, n) ==
    [loads EXCEPT ![key] = IF @ + n > 2 THEN 2 ELSE @ + n]

\* A process starts: a machine with or without storage, an empty directory.
Init ==
    /\ sm \in {StateMachine(TRUE), StateMachine(FALSE)}
    /\ files = <<>>
    /\ clock = 0
    /\ ret = Returned("init", <<>>)
    /\ loads = [k \in Keys |-> 0]
    /\ run = enter("None", <<>>, <<>>)
    /\ recorded = [p \in Pairs |-> <<>>]
    /\ generating = NoCall
    /\ fetching = NoFetch
    /\ pool = NoPool
    /\ building = NoBuild
    /\ _TIKTOKEN_AVAILABLE = FALSE
    /\ threads = NoThreads

\* The process restarts: a new StateMachine over the same storage.
Construct ==
    /\ sm' = StateMachine(sm._storage)
    /\ loads' = [k \in Keys |-> 0]
    /\ ret' = Returned("construct", <<>>)
    /\ UNCHANGED <<files, clock, run, recorded, generating, fetching, pool, building, _TIKTOKEN_AVAILABLE, threads>>

\* A call of get_state(thread_ts, channel_id, user_id).
GetState(p, user_id) ==
    LET r == get_state(sm, files, p[1], p[2], user_id, clock)
    IN  /\ sm' = r.m
        /\ files' = r.fs
        /\ clock' = clock
        /\ loads' = Counted(_make_key(p[1], p[2]), r.loads)
        /\ ret' = [Returned("get_state", _make_key(p[1], p[2])) EXCEPT !.loads = r.loads]
        /\ UNCHANGED <<run, recorded, generating, fetching, pool, building, _TIKTOKEN_AVAILABLE, threads>>

\* A call of transition(thread_ts, channel_id, event, **kwargs).
Transition(p, event, kw) ==
    LET r == transition(sm, files, p[1], p[2], event, Kwargs(kw), clock)
    IN  /\ sm' = r.m
        /\ files' = r.fs
        /\ clock' = clock
        /\ loads' = Counted(_make_key(p[1], p[2]), r.loads)
        /\ ret' = [op |-> "transition", key |-> _make_key(p[1], p[2]),
                   event |-> r.event, current_state |-> r.current_state,
                   raised |-> r.raised, loads |-> r.loads]
        /\ UNCHANGED <<run, recorded, generating, fetching, pool, building, _TIKTOKEN_AVAILABLE, threads>>

\* The wall clock advances.
Tick ==
    /\ clock < MaxTime
    /\ clock' = clock + 1
    /\ ret' = Returned("tick", <<>>)
    /\ UNCHANGED <<sm, files, loads, run, recorded, generating, fetching, pool, building, _TIKTOKEN_AVAILABLE, threads>>

Next ==
    \/ Construct
    \/ Tick
    \/ \E p \in Pairs, u \in Users : GetState(p, u)
    \/ \E p \in Pairs, e \in Event, kw \in KwargsIds : Transition(p, e, kw)

Spec == Init /\ [][Next]_vars

\* ------------------------------------------------------------------------
\* The Slack app (main.py): each event or button click runs one handler.
\* A handler keeps its state machine in a local variable, so the runs of
\* two handlers share nothing and each run is one step.  The outcomes of
\* the external calls are drawn where the handler makes the call.

\* The run is over: what analyse recorded on ANALYSE_REQUESTED is noted.
Ran(h) ==
    /\ run' = h
    /\ recorded' =
          IF h.handler = "handle_analyse_command" /\ h.events # <<>>
          THEN [recorded EXCEPT ![<<h.thread_ts, h.channel>>] =
                   thread(h).input_transcript_content]
          ELSE recorded
    /\ UNCHANGED <<sm, files, clock, ret, loads, generating, fetching, pool, building, _TIKTOKEN_AVAILABLE, threads>>

\* The deck half of handle_approval and handle_updated_deal_analysis, after
\* the LLM call: the Slides presentation, the sharing, DECK_CREATED, the link.
create_deck(h, now) ==
    \E slides \in Outcomes(h) :
    \E h1 \in {try(h, "duplicate_template", slides, "SLIDES_ERROR", now)} :
    \E h2 \in {share_stored(h1)} :
    \E h3 \in {do_transition(h2, "DECK_CREATED",
                  [slides_deck_id |-> "deck_id",
                   slides_deck_link |-> "deck_link"], now)} :
       Ran(return(say(h3, format_deck_complete)))

\* The document half of handle_regenerate and handle_cloud_consent_yes: the
\* Google Doc, the sharing, DEAL_ANALYSIS_CREATED and the approval buttons.
create_analysis_doc(h, now) ==
    \E docs \in Outcomes(h) :
    \E h1 \in {try(h, "create_document", docs, "DOCS_ERROR", now)} :
    \E h2 \in {share_stored(h1)} :
    \E h3 \in {do_transition(h2, "DEAL_ANALYSIS_CREATED",
                  [deal_analysis_doc_id |-> "doc_id",
                   deal_analysis_link |-> "doc_link",
                   deal_analysis_content |-> "deal_analysis_content",
                   missing_info_items |-> <<"missing_info">>], now)} :
       Ran(return(say(h3, format_deal_analysis_complete)))

handle_analyse_command(message, now) ==
    LET thread_ts == or(message.thread_ts, message.ts)
        md_files == md_files_of(message.files)
    IN
    \* 1. Check for file attachments
    \E h1 \in {say_return_if(enter("handle_analyse_command", thread_ts, message.channel),
                             message.files = <<>>, format_error("INPUT_MISSING"))} :
    \E h2 \in {return_if(h1, message.channel = <<>> \/ thread_ts = <<>>
                               \/ message.user = "")} :
    \* 2. Filter for .md files only
    \E h3 \in {say_return_if(h2, md_files = <<>>, format_error("INPUT_INVALID"))} :
    \* 3. Download and validate all .md files
    \E downloaded \in IF running(h3) THEN Downloads ELSE {<<>>} :
    \E got \in {IF running(h3)
                THEN download_files(md_files, 1, downloaded, <<>>, <<>>)
                ELSE [ok |-> FALSE, transcript_parts |-> <<>>, file_ids |-> <<>>]} :
    \E h4 \in {say_return_if(h3, ~got.ok, format_error("INPUT_INVALID"))} :
    \* 4. Transition state to GENERATING_DEAL_ANALYSIS
    \E h5 \in {do_transition(new_machine(h4), "ANALYSE_REQUESTED",
                  [channel_type |-> message.channel_type,
                   user_id |-> message.user,
                   input_transcript_file_ids |-> got.file_ids,
                   input_transcript_content |-> got.transcript_parts], now)} :
    \E h6 \in {say(h5, format_analyzing)} :
    \* 6. Extract client name and create folder structure
    \E drive \in Outcomes(h6) :
    \E h7 \in {try(h6, "get_or_create_client_folder", drive, "DRIVE_PERMISSION", now)} :
    \* 6. Extract URLs from message text and fetch web content
    \E fetched \in IF running(h7) /\ extract_urls(message.text) # <<>>
                   THEN {"page", "None"} ELSE {"page"} :
    \E h8 \in {IF fetched = "None" THEN say(h7, format_fetch_failures) ELSE h7} :
    \* 7. Build context and call LLM
    \E self \in ClientsOf(h8) :
    \E h9 \in {call(new_llm(h8, self), "generate_deal_analysis",
                    got.transcript_parts, FALSE)} :
    \E llm \in LLMOutcomes(h9) :
    \E h10 \in {except_llm_or_consent(h9, llm, now)} :
    \* 8. Create Google Doc
    \E docs \in Outcomes(h10) :
    \E h11 \in {try(h10, "create_document", docs, "DOCS_ERROR", now)} :
    \* 9. Share doc with user (DM) or channel members
    \E h12 \in {share(h11, message.channel_type)} :
    \* 10. Transition to WAITING_FOR_APPROVAL
    \E h13 \in {do_transition(h12, "DEAL_ANALYSIS_CREATED",
                   [client_name |-> client_name_of(md_files),
                    client_folder_id |-> "client_folder_id",
                    analyse_folder_id |-> "analyse_folder_id",
                    proposals_folder_id |-> "proposals_folder_id",
                    deal_analysis_doc_id |-> "doc_id",
                    deal_analysis_link |-> "doc_link",
                    deal_analysis_content |-> "deal_analysis_content",
                    missing_info_items |-> <<"missing_info">>], now)} :
    \* 11. Send message with link + approval buttons
       Ran(return(say(h13, format_deal_analysis_complete)))

\* handle_approval that starts the deck content call as soon as it has the
\* thread state, before the check of the stored data and the APPROVED
\* transition.
handle_approval_eager(body, now) ==
    LET thread_ts == or(body.thread_ts, body.ts) IN
    \E h1 \in {return_if(enter("handle_approval", thread_ts, body.channel),
                         body.channel = <<>> \/ thread_ts = <<>> \/ body.user = "")} :
    \E h2 \in {do_get_state(new_machine(h1), body.user, now)} :
    \E self \in ClientsOf(h2) :
    \E h3 \in {call(new_llm(h2, self), "generate_proposal_deck_content", <<>>, FALSE)} :
    \E llm \in LLMOutcomes(h3) :
    \E h4 \in {say_return_if_thread(h3,
                  LAMBDA thread_state :
                     \/ thread_state.deal_analysis_content = "None"
                     \/ thread_state.proposals_folder_id \in {"None", ""},
                  format_error("STATE_MISSING"))} :
    \E h5 \in {do_transition(h4, "APPROVED", <<>>, now)} :
    \E h6 \in {say(h5, format_generating_deck)} :
    \E h7 \in {except_llm(h6, llm, now)} :
       create_deck(h7, now)

handle_approval(body, now) ==
    LET thread_ts == or(body.thread_ts, body.ts) IN
    \E h1 \in {return_if(enter("handle_approval", thread_ts, body.channel),
                         body.channel = <<>> \/ thread_ts = <<>> \/ body.user = "")} :
    \* 1. Get thread state
    \E h2 \in {do_get_state(new_machine(h1), body.user, now)} :
    \E h3 \in {say_return_if_thread(h2,
                  LAMBDA thread_state :
                     \/ thread_state.deal_analysis_content = "None"
                     \/ thread_state.proposals_folder_id \in {"None", ""},
                  format_error("STATE_MISSING"))} :
    \* 2. Transition to GENERATING_DECK
    \E h4 \in {do_transition(h3, "APPROVED", <<>>, now)} :
    \E h5 \in {say(h4, format_generating_deck)} :
    \* 4. Generate proposal deck content via LLM
    \E self \in ClientsOf(h5) :
    \E h6 \in {call(new_llm(h5, self), "generate_proposal_deck_content", <<>>, FALSE)} :
    \E llm \in LLMOutcomes(h6) :
    \E h7 \in {except_llm(h6, llm, now)} :
       create_deck(h7, now)

handle_rejection(body, now) ==
    LET thread_ts == or(body.thread_ts, body.ts) IN
    \E h1 \in {return_if(enter("handle_rejection", thread_ts, body.channel),
                         body.channel = <<>> \/ thread_ts = <<>>)} :
    \* 1. Transition to DONE
    \E h2 \in {do_transition(new_machine(h1), "REJECTED", <<>>, now)} :
    \* 2. Send confirmation message
       Ran(return(say(h2, format_rejection_confirmed)))

handle_regenerate(body, now) ==
    LET thread_ts == or(body.thread_ts, body.ts) IN
    \E h1 \in {return_if(enter("handle_regenerate", thread_ts, body.channel),
                         body.channel = <<>> \/ thread_ts = <<>> \/ body.user = "")} :
    \* 1. Get thread state
    \E h2 \in {do_get_state(new_machine(h1), body.user, now)} :
    \E h3 \in {say_return_if_thread(h2,
                  LAMBDA thread_state :
                     \/ thread_state.input_transcript_content = <<>>
                     \/ thread_state.analyse_folder_id \in {"None", ""},
                  format_error("STATE_MISSING"))} :
    \* 2. Calculate new version and transition to GENERATING_DEAL_ANALYSIS
    \E h4 \in {set_new_version(h3)} :
    \E h5 \in {do_transition(h4, "REGENERATE_REQUESTED",
                  [deal_analysis_version |-> h4.new_version], now)} :
    \E h6 \in {say(h5, format_regenerating(h4.new_version))} :
    \* 3. Re-run LLM with stored transcript content
    \E self \in ClientsOf(h6) :
    \E h7 \in {generate_from_stored(new_llm(h6, self), FALSE)} :
    \E llm \in LLMOutcomes(h7) :
    \E h8 \in {except_llm(h7, llm, now)} :
    \* 4.-7. Create new Google Doc with version number, share, finish
       create_analysis_doc(h8, now)

handle_updated_deal_analysis(message, now) ==
    LET thread_ts == or(message.thread_ts, message.ts)
        valid_files == valid_files_of(message.files)
    IN
    \E h1 \in {return_if(enter("handle_updated_deal_analysis", thread_ts, message.channel),
                         message.files = <<>> \/ thread_ts = <<>>)} :
    \E h2 \in {return_if(h1, message.channel = <<>> \/ message.user = "")} :
    \* 1. Get thread state to check current state
    \E h3 \in {do_get_state(new_machine(h2), message.user, now)} :
    \* 2. Only proceed if in WAITING_FOR_APPROVAL state
    \E h4 \in {return_if_thread(h3,
                  LAMBDA thread_state : thread_state.state # "WAITING_FOR_APPROVAL")} :
    \* 3. Filter for .docx or .md files
    \E h5 \in {return_if(h4, valid_files = <<>>)} :
    \* 4. Download the first valid file
    \E h6 \in {return_if(h5, valid_files[1].url_private_download = "")} :
    \E downloaded \in IF running(h6) THEN Downloads ELSE {<<>>} :
    \E h7 \in {say_return_if(h6, downloaded[valid_files[1].id] = "raise",
                             format_error("INPUT_INVALID"))} :
    \* 5. Parse file into structured deal analysis format
    \E parse \in Outcomes(h7) :
    \E h8 \in {say_return_if(h7, parse = "raise", format_error("INPUT_INVALID"))} :
    \* 6. Transition to GENERATING_DECK with UPDATED_DEAL_ANALYSIS_PROVIDED
    \E h9 \in {do_transition(h8, "UPDATED_DEAL_ANALYSIS_PROVIDED",
                  [deal_analysis_content |-> "parse_deal_analysis"], now)} :
    \E h10 \in {say(h9, format_generating_deck)} :
    \* 8. Generate proposal deck content via LLM
    \E self \in ClientsOf(h10) :
    \E h11 \in {call(new_llm(h10, self), "generate_proposal_deck_content", <<>>, FALSE)} :
    \E llm \in LLMOutcomes(h11) :
    \E h12 \in {except_llm(h11, llm, now)} :
    \* 9. Create Google Slides presentation
    \E h13 \in {IF running(h12) /\ thread(h12).proposals_folder_id \in {"None", ""}
                THEN step_failed(h12, "SLIDES_ERROR", now) ELSE h12} :
       create_deck(h13, now)

handle_cloud_consent_yes(body, now) ==
    LET thread_ts == or(body.thread_ts, body.ts) IN
    \E h1 \in {return_if(enter("handle_cloud_consent_yes", thread_ts, body.channel),
                         body.channel = <<>> \/ thread_ts = <<>> \/ body.user = "")} :
    \* Get thread state to retrieve stored transcript
    \E h2 \in {do_get_state(new_machine(h1), body.user, now)} :
    \E h3 \in {say_return_if_thread(h2,
                  LAMBDA thread_state : thread_state.input_transcript_content = <<>>,
                  format_error("STATE_MISSING"))} :
    \* Transition to GENERATING_DEAL_ANALYSIS with cloud consent
    \E h4 \in {do_transition(h3, "CLOUD_CONSENT_GIVEN",
                  [cloud_consent_given |-> TRUE], now)} :
    \E h5 \in {say(h4, format_analyzing)} :
    \* Retry LLM call with cloud
    \E self \in ClientsOf(h5) :
    \E h6 \in {generate_from_stored(new_llm(h5, self), TRUE)} :
    \E llm \in LLMOutcomes(h6) :
    \E h7 \in {except_llm(h6, llm, now)} :
    \* Create Google Doc
    \E h8 \in {IF running(h7) /\ thread(h7).analyse_folder_id \in {"None", ""}
               THEN step_failed(h7, "DOCS_ERROR", now) ELSE h7} :
       create_analysis_doc(h8, now)

handle_cloud_consent_no(body, now) ==
    LET thread_ts == or(body.thread_ts, body.ts) IN
    \E h1 \in {return_if(enter("handle_cloud_consent_no", thread_ts, body.channel),
                         body.channel = <<>> \/ thread_ts = <<>>)} :
    \* Transition to failed/cancelled state
    \E h2 \in {do_transition(new_machine(h1), "REJECTED", <<>>, now)} :
       Ran(return(say(h2, Message(":ok_hand: Got it, analysis cancelled.", "none", 0))))

HandlerInit ==
    /\ sm = StateMachine(FALSE)
    /\ files = <<>>
    /\ clock = 0
    /\ ret = Returned("init", <<>>)
    /\ loads = [k \in Keys |-> 0]
    /\ run = enter("None", <<>>, <<>>)
    /\ recorded = [p \in Pairs |-> <<>>]
    /\ generating = NoCall
    /\ fetching = NoFetch
    /\ pool = NoPool
    /\ building = NoBuild
    /\ _TIKTOKEN_AVAILABLE = FALSE
    /\ threads = NoThreads

\* @app.message("Analyse")
AnalyseCommand ==
    \E env \in Envelopes, fs \in FileLists, channel_type \in {"im", "channel"},
       text \in Texts :
        handle_analyse_command(MessageOf(env, channel_type, fs, text), clock)

\* @app.event("message"), for an event with files
UpdatedDealAnalysis ==
    \E env \in Envelopes, fs \in FileLists \ {<<>>} :
        handle_updated_deal_analysis(MessageOf(env, "im", fs, <<>>), clock)

\* @app.action("approve_deck")
Approval == \E body \in Envelopes : handle_approval(body, clock)

\* @app.action("reject_deck")
Rejection == \E body \in Envelopes : handle_rejection(body, clock)

\* handle_regenerate
Regenerate == \E body \in Envelopes : handle_regenerate(body, clock)

\* @app.action("cloud_consent_yes")
CloudConsentYes == \E body \in Envelopes : handle_cloud_consent_yes(body, clock)

\* @app.action("cloud_consent_no")
CloudConsentNo == \E body \in Envelopes : handle_cloud_consent_no(body, clock)

HandlerNext ==
    \/ AnalyseCommand
    \/ UpdatedDealAnalysis
    \/ Approval
    \/ Rejection
    \/ Regenerate
    \/ CloudConsentYes
    \/ CloudConsentNo

HandlerSpec == HandlerInit /\ [][HandlerNext]_vars

\* ------------------------------------------------------------------------
\* A call of LLMClient.generate, for every client, path and sequence of
\* completion outcomes.

RetryInit ==
    /\ sm = StateMachine(FALSE)
    /\ files = <<>>
    /\ clock = 0
    /\ ret = Returned("init", <<>>)
    /\ loads = [k \in Keys |-> 0]
    /\ run = enter("None", <<>>, <<>>)
    /\ recorded = [p \in Pairs |-> <<>>]
    /\ \E self \in Clients, use_cloud \in BOOLEAN, outcomes \in OutcomeSeqs :
          generating = Calling(self, use_cloud, outcomes)
    /\ fetching = NoFetch
    /\ pool = NoPool
    /\ building = NoBuild
    /\ _TIKTOKEN_AVAILABLE = FALSE
    /\ threads = NoThreads

\* generate(messages, use_cloud=...) runs to its end.
Generate ==
    /\ generating.pc = "call"
    /\ generating' = [generating EXCEPT !.pc = "done",
                   !.result = generate(generating.self, generating.outcomes,
                                       generating.use_cloud)]
    /\ UNCHANGED <<sm, files, clock, ret, loads, run, recorded, fetching, pool,
                   building, _TIKTOKEN_AVAILABLE, threads>>

RetryNext == Generate

RetrySpec == RetryInit /\ [][RetryNext]_vars

\* ------------------------------------------------------------------------
\* A call of WebFetcher.fetch_url, for every sequence of attempt outcomes.

FetchInit ==
    /\ sm = StateMachine(FALSE)
    /\ files = <<>>
    /\ clock = 0
    /\ ret = Returned("init", <<>>)
    /\ loads = [k \in Keys |-> 0]
    /\ run = enter("None", <<>>, <<>>)
    /\ recorded = [p \in Pairs |-> <<>>]
    /\ generating = NoCall
    /\ \E outcomes \in AttemptSeqs : fetching = Fetching(outcomes)
    /\ pool = NoPool
    /\ building = NoBuild
    /\ _TIKTOKEN_AVAILABLE = FALSE
    /\ threads = NoThreads

\* fetch_url(url) runs to its end.
FetchUrl ==
    /\ fetching.pc = "call"
    /\ fetching' = [fetching EXCEPT !.pc = "done",
                                    !.result = fetch_url(fetching.outcomes)]
    /\ UNCHANGED <<sm, files, clock, ret, loads, run, recorded, generating, pool,
                   building, _TIKTOKEN_AVAILABLE, threads>>

FetchNext == FetchUrl

FetchSpec == FetchInit /\ [][FetchNext]_vars

\* ------------------------------------------------------------------------
\* A call of WebFetcher.fetch_multiple, for every list of urls and every
\* interleaving of the threads of the pool and the calling thread.

PoolInit ==
    /\ sm = StateMachine(FALSE)
    /\ files = <<>>
    /\ clock = 0
    /\ ret = Returned("init", <<>>)
    /\ loads = [k \in Keys |-> 0]
    /\ run = enter("None", <<>>, <<>>)
    /\ recorded = [p \in Pairs |-> <<>>]
    /\ generating = NoCall
    /\ fetching = NoFetch
    /\ \E urls \in UrlLists, max_workers \in Workers :
          pool = fetch_multiple(urls, max_workers)
    /\ building = NoBuild
    /\ _TIKTOKEN_AVAILABLE = FALSE
    /\ threads = NoThreads

Pooled ==
    UNCHANGED <<sm, files, clock, ret, loads, run, recorded, generating, fetching,
                building, _TIKTOKEN_AVAILABLE, threads>>

\* A free thread of the pool takes the first queued call.
Start(i) ==
    /\ pool.futures[i].state = "PENDING"
    /\ \A j \in 1..(i - 1) : pool.futures[j].state # "PENDING"
    /\ running_calls(pool.futures) < pool.max_workers
    /\ pool' = [pool EXCEPT !.futures[i].state = "RUNNING"]
    /\ Pooled

\* The fetch_url call of a thread returns: the page, or None.
Finish(i) ==
    /\ pool.futures[i].state = "RUNNING"
    /\ \E outcome \in Attempts :
          pool' = [pool EXCEPT
                      !.futures[i].state = "FINISHED",
                      !.futures[i].result =
                          fetch_url([k \in 1..MaxCalls |-> outcome]).content]
    /\ Pooled

\* One iteration of "for future in as_completed(future_to_url)".
Yield(i) ==
    /\ pool.pc = "as_completed"
    /\ pool.futures[i].state = "FINISHED"
    /\ ~pool.futures[i].yielded
    /\ pool' = [pool EXCEPT
                   !.futures[i].yielded = TRUE,
                   !.results = setitem(pool.results, pool.futures[i].url,
                                       pool.futures[i].result)]
    /\ Pooled

\* "return []" or, after the loop, "return [(url, results.get(url)) for url
\* in urls]".
Return ==
    /\ pool.pc \in {"return", "as_completed"}
    /\ \A i \in 1..Len(pool.futures) : pool.futures[i].yielded
    /\ pool' = [pool EXCEPT
                   !.pc = "done",
                   !.returned = [i \in 1..Len(pool.urls) |->
                                    <<pool.urls[i], get(pool.results, pool.urls[i])>>]]
    /\ Pooled

PoolNext ==
    \/ \E i \in 1..Len(pool.futures) : Start(i)
    \/ \E i \in 1..Len(pool.futures) : Finish(i)
    \/ \E i \in 1..Len(pool.futures) : Yield(i)
    \/ Return

PoolSpec == PoolInit /\ [][PoolNext]_vars

\* ------------------------------------------------------------------------
\* The calls of the context builder: _merge_transcripts, _build_section and
\* build_context, each for the inputs below.

\* The transcript entries of a list, the items and the budgets of a small
\* section, the headers build_context passes, and the items of a section
\* with the budget build_context gives it.
MaxItems == 3
Entries == {"", " ", "call A", " call B\n", "notes\n\nmore"}
Items == {"", "short", "line one\nline two words", rep("m", 40), rep("x", 200)}
Budgets == {0, 24, 25, 41, 100, 124, 202}
LongItems == {"reference", rep("m", 19980), rep("l", 30000)}
Headers ==
    {<<"## REFERENCE MATERIALS", "### Reference">>, <<"## WEB RESEARCH", "### Source">>}
Lists(S) == UNION {[1..n -> S] : n \in 0..MaxItems}

\* The two sections of build_context: the budget and the headers of each.
Sections ==
    {<<ContextBuilder.MAX_REFERENCES_TOKENS * ContextBuilder.CHARS_PER_TOKEN,
       <<"## REFERENCE MATERIALS", "### Reference">> >>,
     <<ContextBuilder.MAX_WEB_TOKENS * ContextBuilder.CHARS_PER_TOKEN,
       <<"## WEB RESEARCH", "### Source">> >>}

\* The transcripts of build_context: short, empty, a list, and texts over
\* the budget of 96,000 characters: without whitespace, with a late
\* newline or space, and of 2 and of 3 paragraphs of 4,000 words.
Paragraphs(n) == strip(rep(strip(rep("wordwordword ", 4000)) \o "\n\n", n))
Transcripts ==
    {[str |-> "call notes"], [str |-> " "], [list |-> <<"call A", " ", " call B\n">>],
     [str |-> rep("x", 96000)], [str |-> rep("x", 96004)],
     [str |-> rep("x", 95990) \o "\n" \o rep("y", 100)],
     [str |-> rep("x", 95990) \o " " \o rep("y", 100)],
     [str |-> Paragraphs(2)], [str |-> Paragraphs(3)]}
\* The references and web_content of a call, and its summarizer and
\* on_status.
Sources ==
    { << <<>>, <<>> >>,
      << <<"", " ">>, <<rep("p", 30000), "page">> >>,
      << <<rep("r", 30000), "reference", rep("s", 30000)>>, <<>> >>,
      << <<"reference">>, <<"page">> >> }
Callbacks ==
    { <<"None", FALSE>>, <<"None", TRUE>>, <<"Summary", FALSE>>, <<"Summary", TRUE>>,
      <<"echo", TRUE>>, <<"", TRUE>> }

Merging(transcript) ==
    [op |-> "_merge_transcripts", pc |-> "call", transcript |-> transcript]
Sectioning(items, max_chars, headers) ==
    [op |-> "_build_section", pc |-> "call", items |-> items, max_chars |-> max_chars,
     section_header |-> headers[1], item_prefix |-> headers[2]]
Building(transcript, references, web_content, summarizer, on_status) ==
    [op |-> "build_context", pc |-> "call", transcript |-> transcript,
     references |-> references, web_content |-> web_content,
     summarizer |-> summarizer, on_status |-> on_status]

\* Texts to cut, with line and word boundaries at their start, inside, and
\* without any, and the limits to cut them at.
CutTexts == {"", "abcdef", "abc def", "ab\ncd ef", "a b\ncdef", "\nabc def", " abcdef",
             "\n\nabc", "ab cd\n"}
CutLimits == 0..8

Truncating(text, max_chars) ==
    [op |-> "_truncate_to_budget", pc |-> "call", text |-> text, max_chars |-> max_chars]

BuildInit ==
    /\ sm = StateMachine(FALSE)
    /\ files = <<>>
    /\ clock = 0
    /\ ret = Returned("init", <<>>)
    /\ loads = [k \in Keys |-> 0]
    /\ run = enter("None", <<>>, <<>>)
    /\ recorded = [p \in Pairs |-> <<>>]
    /\ generating = NoCall
    /\ fetching = NoFetch
    /\ pool = NoPool
    /\ _TIKTOKEN_AVAILABLE = FALSE
    /\ threads = NoThreads
    /\ \/ \E entry \in Entries : building = Merging([str |-> entry])
       \/ \E transcript \in Lists(Entries) : building = Merging([list |-> transcript])
       \/ \E items \in Lists(Items), max_chars \in Budgets, headers \in Headers :
             building = Sectioning(items, max_chars, headers)
       \/ \E items \in Lists(LongItems), section \in Sections :
             building = Sectioning(items, section[1], section[2])
       \/ \E text \in CutTexts, max_chars \in CutLimits :
             building = Truncating(text, max_chars)
       \/ \E transcript \in Transcripts, sources \in Sources, callbacks \in Callbacks :
             building = Building(transcript, sources[1], sources[2], callbacks[1],
                                 callbacks[2])

\* The call runs to its end.
Built(result) ==
    /\ building.pc = "call"
    /\ building' = [op |-> building.op, pc |-> "done", args |-> building,
                    result |-> result]
    /\ UNCHANGED <<sm, files, clock, ret, loads, run, recorded, generating, fetching,
                   pool, _TIKTOKEN_AVAILABLE, threads>>

MergeTranscripts ==
    /\ building.op = "_merge_transcripts"
    /\ Built(_merge_transcripts(building.transcript))

BuildSection ==
    /\ building.op = "_build_section"
    /\ Built(_build_section(building.items, building.max_chars,
                            building.section_header, building.item_prefix))

BuildContext ==
    /\ building.op = "build_context"
    /\ Built(build_context(building.transcript, building.references,
                           building.web_content, building.summarizer,
                           building.on_status))

TruncateToBudget ==
    /\ building.op = "_truncate_to_budget"
    /\ Built(_truncate_to_budget(building.text, building.max_chars))

BuildNext ==
    \/ TruncateToBudget
    \/ MergeTranscripts
    \/ BuildSection
    \/ BuildContext

BuildSpec == BuildInit /\ [][BuildNext]_vars

\* ------------------------------------------------------------------------
\* The calls of chunk_text, with and without tiktoken.

\* The texts are up to MaxAtoms of the pieces below, one after the other;
\* with tiktoken, those that encode is defined for: whitespace as single
\* spaces and single blank lines, and no "." before a newline.
MaxAtoms == 4
Atoms == {"7", "12 3", "4. 5", "1234567890123", " ", "\n\n"}
ChunkTexts == {join("", atoms) : atoms \in UNION {[1..n -> Atoms] : n \in 0..MaxAtoms}}
Limits == {-1, 0, 1, 2, 4}
Encodable(text) ==
    /\ \A i \in 1..(Len(text) - 1) :
          (SubSeq(text, i, i) \in whitespace /\ SubSeq(text, i + 1, i + 1) \in whitespace)
             => /\ SubSeq(text, i, i + 1) = "\n\n"
                /\ i = 1 \/ SubSeq(text, i - 1, i - 1) \notin whitespace
                /\ i + 1 = Len(text) \/ SubSeq(text, i + 2, i + 2) \notin whitespace
    /\ \A i \in 1..(Len(text) - 1) :
          SubSeq(text, i, i) = "." => SubSeq(text, i + 1, i + 1) # "\n"

ChunkInputs ==
    {input \in ChunkTexts \X BOOLEAN : input[2] => Encodable(input[1])}

Chunking(text, max_tokens) ==
    [op |-> "chunk_text", pc |-> "call", text |-> text, max_tokens |-> max_tokens]

ChunkInit ==
    /\ sm = StateMachine(FALSE)
    /\ files = <<>>
    /\ clock = 0
    /\ ret = Returned("init", <<>>)
    /\ loads = [k \in Keys |-> 0]
    /\ run = enter("None", <<>>, <<>>)
    /\ recorded = [p \in Pairs |-> <<>>]
    /\ generating = NoCall
    /\ fetching = NoFetch
    /\ pool = NoPool
    /\ \E input \in ChunkInputs, max_tokens \in Limits :
          /\ _TIKTOKEN_AVAILABLE = input[2]
          /\ threads = NoThreads
          /\ building = Chunking(input[1], max_tokens)

ChunkText ==
    /\ building.op = "chunk_text"
    /\ Built(chunk_text(building.text, building.max_tokens))

ChunkNext == ChunkText

ChunkSpec == ChunkInit /\ [][ChunkNext]_vars

\* ------------------------------------------------------------------------
\* The calls of JSONStorage.save and JSONStorage.load on one data directory.

\* The keys of the calls: the pairs above, which share a file, and one more.
StoragePairs == Pairs \cup { << <<"3">>, <<"D">> >> }

\* The records saved: a state with its previous_state, and the timestamps.
StatePairs ==
    { <<"IDLE", "None">>, <<"WAITING_FOR_APPROVAL", "GENERATING_DEAL_ANALYSIS">>,
      <<"DONE", "ERROR">>, <<"ERROR", "IDLE">> }
Records ==
    { [ThreadState(p[1], p[2], "U001", times[1]) EXCEPT
          !.state = sp[1], !.previous_state = sp[2], !.updated_at = times[2]] :
        p \in StoragePairs, sp \in StatePairs,
        times \in {t \in (0..MaxTime) \X (0..MaxTime) : t[1] <= t[2]} }

\* The record of a storage call: saved are the keys saved so far.
StorageInit ==
    /\ sm = StateMachine(TRUE)
    /\ files = <<>>
    /\ clock = 0
    /\ ret = [op |-> "init", saved |-> {}]
    /\ loads = [k \in Keys |-> 0]
    /\ run = enter("None", <<>>, <<>>)
    /\ recorded = [p \in Pairs |-> <<>>]
    /\ generating = NoCall
    /\ fetching = NoFetch
    /\ pool = NoPool
    /\ building = NoBuild
    /\ _TIKTOKEN_AVAILABLE = FALSE
    /\ threads = NoThreads

\* storage.save(state).
Save(state) ==
    /\ files' = save(files, state)
    /\ ret' = [op |-> "save", state |-> state,
               saved |-> ret.saved \cup {<<state.thread_ts, state.channel_id>>}]
    /\ UNCHANGED <<sm, clock, loads, run, recorded, generating, fetching, pool, building,
                   _TIKTOKEN_AVAILABLE, threads>>

\* storage.load(thread_ts, channel_id).
Load(p) ==
    /\ ret' = [op |-> "load", thread_ts |-> p[1], channel_id |-> p[2],
               result |-> load(files, p[1], p[2]), saved |-> ret.saved]
    /\ UNCHANGED <<sm, files, clock, loads, run, recorded, generating, fetching, pool,
                   building, _TIKTOKEN_AVAILABLE, threads>>

StorageNext ==
    \/ \E state \in Records : Save(state)
    \/ \E p \in StoragePairs : Load(p)

StorageSpec == StorageInit /\ [][StorageNext]_vars

\* ------------------------------------------------------------------------
\* Two transition calls for one conversation at the same time.  The
\* listeners that create_app registers (main.py) are run by the app as the
\* events arrive, without a lock or a queue per conversation, and transition
\* takes none, so the statements of two calls on a machine interleave.  Both
\* calls hold the record that get_state returned, the object in the cache.

\* The conversation of the calls.
Conversation == << <<"2">>, <<"C", "_", "1">> >>
ConversationKey == _make_key(Conversation[1], Conversation[2])

\* A transition call that has not begun.
Called(event) == [event |-> event, pc |-> "get_state", new_state |-> "None"]

\* The call is over: it returned or it raised.
ended(c) == c.pc \in {"return", "InvalidTransitionError", "KeyError"}

\* The record both calls work on, once a get_state has returned.
shared == sm._cache[ConversationKey]

\* The call moves on to the statement at pc.
goto(i, pc) == threads' = [threads EXCEPT !.calls[i].pc = pc]

\* The record in the cache becomes state.
assign(state) == sm' = [sm EXCEPT !._cache[ConversationKey] = state]

RaceInit ==
    /\ sm \in {StateMachine(TRUE), StateMachine(FALSE)}
    /\ files = <<>>
    /\ clock = 0
    /\ ret = Returned("init", <<>>)
    /\ loads = [k \in Keys |-> 0]
    /\ run = enter("None", <<>>, <<>>)
    /\ recorded = [p \in Pairs |-> <<>>]
    /\ generating = NoCall
    /\ fetching = NoFetch
    /\ pool = NoPool
    /\ building = NoBuild
    /\ _TIKTOKEN_AVAILABLE = FALSE
    /\ threads = NoThreads

\* Two events for the conversation arrive together, no call running.
Deliver(event1, event2) ==
    /\ \A i \in DOMAIN threads.calls : ended(threads.calls[i])
    /\ threads' = [calls |-> <<Called(event1), Called(event2)>>,
                   before |-> [m |-> sm, fs |-> files]]
    /\ UNCHANGED <<sm, files, clock, ret, loads, run, recorded, generating, fetching,
                   pool, building, _TIKTOKEN_AVAILABLE>>

\* state = self.get_state(thread_ts, channel_id)
LookUp(i) ==
    LET r == get_state(sm, files, Conversation[1], Conversation[2], "", clock)
    IN  /\ threads.calls[i].pc = "get_state"
        /\ sm' = r.m
        /\ files' = r.fs
        /\ goto(i, "can_transition")
        /\ UNCHANGED <<clock, ret, loads, run, recorded, generating, fetching, pool,
                       building, _TIKTOKEN_AVAILABLE>>

\* if not self.can_transition(state.state, event): raise InvalidTransitionError
Check(i) ==
    /\ threads.calls[i].pc = "can_transition"
    /\ IF can_transition(shared.state, threads.calls[i].event)
       THEN goto(i, "new_state")
       ELSE goto(i, "InvalidTransitionError")
    /\ UNCHANGED <<sm, files, clock, ret, loads, run, recorded, generating, fetching,
                   pool, building, _TIKTOKEN_AVAILABLE>>

\* new_state = TRANSITIONS[(state.state, event)]: a KeyError when the table
\* has no such edge.
NewState(i) ==
    /\ threads.calls[i].pc = "new_state"
    /\ IF <<shared.state, threads.calls[i].event>> \in DOMAIN TRANSITIONS
       THEN threads' = [threads EXCEPT
                           !.calls[i].pc = "previous_state",
                           !.calls[i].new_state =
                               TRANSITIONS[<<shared.state, threads.calls[i].event>>]]
       ELSE goto(i, "KeyError")
    /\ UNCHANGED <<sm, files, clock, ret, loads, run, recorded, generating, fetching,
                   pool, building, _TIKTOKEN_AVAILABLE>>

\* state.previous_state = state.state
SetPreviousState(i) ==
    /\ threads.calls[i].pc = "previous_state"
    /\ assign([shared EXCEPT !.previous_state = shared.state])
    /\ goto(i, "state")
    /\ UNCHANGED <<files, clock, ret, loads, run, recorded, generating, fetching,
                   pool, building, _TIKTOKEN_AVAILABLE>>

\* state.state = new_state
SetState(i) ==
    /\ threads.calls[i].pc = "state"
    /\ assign([shared EXCEPT !.state = threads.calls[i].new_state])
    /\ goto(i, "updated_at")
    /\ UNCHANGED <<files, clock, ret, loads, run, recorded, generating, fetching,
                   pool, building, _TIKTOKEN_AVAILABLE>>

\* state.updated_at = datetime.utcnow(); the kwargs loop, without kwargs.
SetUpdatedAt(i) ==
    /\ threads.calls[i].pc = "updated_at"
    /\ assign([shared EXCEPT !.updated_at = clock])
    /\ goto(i, "save")
    /\ UNCHANGED <<files, clock, ret, loads, run, recorded, generating, fetching,
                   pool, building, _TIKTOKEN_AVAILABLE>>

\* if self._storage: self._storage.save(state); return state
Persist(i) ==
    /\ threads.calls[i].pc = "save"
    /\ files' = IF sm._storage THEN save(files, shared) ELSE files
    /\ goto(i, "return")
    /\ UNCHANGED <<sm, clock, ret, loads, run, recorded, generating, fetching, pool,
                   building, _TIKTOKEN_AVAILABLE>>

\* The wall clock advances while calls run.
RaceTick ==
    /\ clock < MaxTime
    /\ clock' = clock + 1
    /\ UNCHANGED <<sm, files, ret, loads, run, recorded, generating, fetching, pool,
                   building, _TIKTOKEN_AVAILABLE, threads>>

RaceNext ==
    \/ \E event1 \in Event, event2 \in Event : Deliver(event1, event2)
    \/ \E i \in DOMAIN threads.calls : LookUp(i)
    \/ \E i \in DOMAIN threads.calls : Check(i)
    \/ \E i \in DOMAIN threads.calls : NewState(i)
    \/ \E i \in DOMAIN threads.calls : SetPreviousState(i)
    \/ \E i \in DOMAIN threads.calls : SetState(i)
    \/ \E i \in DOMAIN threads.calls : SetUpdatedAt(i)
    \/ \E i \in DOMAIN threads.calls : Persist(i)
    \/ RaceTick

RaceSpec == RaceInit /\ [][RaceNext]_vars


\* ------------------------------------------------------------------------
\* What the properties below speak about.

\* The transition table as the specification lists it.
SpecTable ==
    ( <<"IDLE", "ANALYSE_REQUESTED">> :> "GENERATING_DEAL_ANALYSIS"
   @@ <<"IDLE", "INPUTS_MISSING">> :> "WAITING_FOR_INPUTS"
   @@ <<"GENERATING_DEAL_ANALYSIS", "DEAL_ANALYSIS_CREATED">> :> "WAITING_FOR_APPROVAL"
   @@ <<"GENERATING_DEAL_ANALYSIS", "FAILED">> :> "ERROR"
   @@ <<"WAITING_FOR_APPROVAL", "APPROVED">> :> "GENERATING_DECK"
   @@ <<"WAITING_FOR_APPROVAL", "REJECTED">> :> "DONE"
   @@ <<"WAITING_FOR_APPROVAL", "UPDATED_DEAL_ANALYSIS_PROVIDED">> :> "GENERATING_DECK"
   @@ <<"WAITING_FOR_APPROVAL", "REGENERATE_REQUESTED">> :> "GENERATING_DEAL_ANALYSIS"
   @@ <<"GENERATING_DECK", "DECK_CREATED">> :> "DONE"
   @@ <<"GENERATING_DECK", "FAILED">> :> "ERROR"
   @@ <<"ERROR", "ANALYSE_REQUESTED">> :> "GENERATING_DEAL_ANALYSIS"
   @@ <<"ERROR", "CLOUD_CONSENT_GIVEN">> :> "GENERATING_DEAL_ANALYSIS"
   @@ <<"ERROR", "REJECTED">> :> "DONE" )

\* The file of a cache key.
PathOf(key) == key \o <<".", "j", "s", "o", "n">>

\* The record stored for a key, read back: <<>> when there is no file.
Stored(key) ==
    IF PathOf(key) \in DOMAIN files THEN <<_deserialize(files[PathOf(key)])>> ELSE <<>>

\* The record the machine holds for a key: the cached one, else the stored
\* one when the machine has a storage, else none (<<>>).
Held(key) ==
    IF key \in DOMAIN sm._cache THEN <<sm._cache[key]>>
    ELSE IF sm._storage THEN Stored(key)
    ELSE <<>>

\* The state of the conversation at a key; one without a record is new.
StateAt(key) == IF Held(key) = <<>> THEN "IDLE" ELSE Held(key)[1].state

\* The last call was a transition that returned.
Transitioned == ret.op = "transition" /\ ~ret.raised

\* The last call was a transition that raised InvalidTransitionError.
Rejected == ret.op = "transition" /\ ret.raised

\* ------------------------------------------------------------------------
\* C1. Approval gate: every transition call that puts a conversation's
\* record into GENERATING_DECK found it in WAITING_FOR_APPROVAL.
C1_ApprovalGate ==
    [][\A k \in Keys :
        (Transitioned' /\ ret'.key = k /\ StateAt(k)' = "GENERATING_DECK")
        => StateAt(k) = "WAITING_FOR_APPROVAL"]_vars

\* C2. The table has exactly the 13 listed edges: a transition call with
\* Event on a record in state From returns a record with state = To and
\* previous_state = From when (From, Event, To) is listed, and no other pair
\* is accepted.
C2_TableEdges ==
    ret.op = "transition" =>
        IF <<ret.current_state, ret.event>> \in DOMAIN SpecTable
        THEN /\ ~ret.raised
             /\ sm._cache[ret.key].state = SpecTable[<<ret.current_state, ret.event>>]
             /\ sm._cache[ret.key].previous_state = ret.current_state
        ELSE ret.raised

\* C3 as stated. A transition call with a pair outside the table raises
\* InvalidTransitionError with that state and event, and the cache and the
\* storage are after the call as they were before it, whether or not a
\* record existed for the key.
C3_RejectionChangesNothing ==
    [][\A k \in Keys :
        (ret'.op = "transition" /\ ret'.key = k
            /\ <<StateAt(k), ret'.event>> \notin DOMAIN SpecTable)
        => /\ ret'.raised
           /\ ret'.current_state = StateAt(k)
           /\ sm' = sm
           /\ files' = files]_vars

\* C3 as amended. A transition call with a pair outside the table raises
\* InvalidTransitionError with that state and event; a record the machine
\* held for the key (cached or stored) is the same after the call, cached,
\* and the files are untouched; when it held none, a new IDLE record is
\* cached (and saved, with a storage), as get_state leaves it.
C3_RejectionKeepsRecord ==
    [][\A key \in Keys :
        (ret'.op = "transition" /\ ret'.key = key
            /\ <<StateAt(key), ret'.event>> \notin DOMAIN SpecTable)
        => /\ ret'.raised
           /\ ret'.current_state = StateAt(key)
           /\ key \in DOMAIN sm'._cache
           /\ \A k \in DOMAIN sm._cache : sm'._cache[k] = sm._cache[k]
           /\ IF Held(key) # <<>>
              THEN /\ sm'._cache[key] = Held(key)[1]
                   /\ files' = files
              ELSE /\ sm'._cache[key].state = "IDLE"
                   /\ sm'._cache[key].previous_state = "None"
                   /\ sm'._cache[key].created_at = clock
                   /\ sm'._cache[key].updated_at = clock
                   /\ Held(key)' = <<sm'._cache[key]>>
                   /\ IF sm._storage
                      THEN Stored(key)' = <<sm'._cache[key]>>
                      ELSE files' = files]_vars

\* C3 witnesses: a rejected call on a record that went through a transition
\* before, and a rejected call at a key that had no record.
C3_Witness ==
    /\ Rejected
    /\ sm._cache[ret.key].state = "WAITING_FOR_APPROVAL"
    /\ sm._cache[ret.key].updated_at > sm._cache[ret.key].created_at
    /\ sm._storage

\* C4. A transition call that returns leaves state = TRANSITIONS[(state
\* before, event)] and previous_state = state before, whatever field
\* updates it was given.
C4_StateOnlyAlongEdge ==
    [][\A k \in Keys :
        (Transitioned' /\ ret'.key = k)
        => /\ StateAt(k)' = TRANSITIONS[<<StateAt(k), ret'.event>>]
           /\ Held(k)'[1].previous_state = StateAt(k)]_vars

\* C9. With a storage, after a transition that returned, the stored record
\* of the key, read back, is the cached record.
C9_SavedEqualsCached ==
    (Transitioned /\ sm._storage) => Stored(ret.key) = <<sm._cache[ret.key]>>

\* C9 witness: a saved transition that applied field updates and stamped a
\* later updated_at.
C9_Witness ==
    /\ Transitioned /\ sm._storage
    /\ sm._cache[ret.key].client_name = "Acme Corp"
    /\ sm._cache[ret.key].state = "WAITING_FOR_APPROVAL"
    /\ sm._cache[ret.key].updated_at > sm._cache[ret.key].created_at
    /\ Stored(ret.key) = <<sm._cache[ret.key]>>

\* C10. get_state hands back the record held for the key (cached or stored)
\* unchanged and writes no file; only when none is held it caches a new IDLE
\* record, and saves it when there is a storage.  No key is loaded from
\* storage more than once by one machine.
C10_GetStateKeepsRecord ==
    [][\A key \in Keys :
        (ret'.op = "get_state" /\ ret'.key = key)
        => /\ key \in DOMAIN sm'._cache
           /\ \A k \in DOMAIN sm._cache : sm'._cache[k] = sm._cache[k]
           /\ loads'[key] <= 1
           /\ IF Held(key) # <<>>
              THEN /\ sm'._cache[key] = Held(key)[1]
                   /\ files' = files
              ELSE /\ sm'._cache[key].state = "IDLE"
                   /\ sm'._cache[key].previous_state = "None"
                   /\ IF sm._storage
                      THEN Stored(key)' = <<sm'._cache[key]>>
                      ELSE files' = files]_vars

\* C10 witness: get_state on a new machine brought back a stored record
\* that earlier transitions had moved on.
C10_Witness ==
    /\ ret.op = "get_state"
    /\ ret.loads = 1
    /\ sm._cache[ret.key].state = "WAITING_FOR_APPROVAL"
    /\ sm._cache[ret.key].client_name = "Acme Corp"

\* The record the machine holds for a (thread_ts, channel_id) pair.
HeldFor(q) == Held(_make_key(q[1], q[2]))

\* The file of a (thread_ts, channel_id) pair: <<>> when there is none.
FileOf(q) ==
    IF _get_path(q[1], q[2]) \in DOMAIN files
    THEN <<files[_get_path(q[1], q[2])]>> ELSE <<>>

\* C11. Two distinct (channel_id, thread_ts) pairs share no record and no
\* file: the record the machine holds for a pair, and the file stored for
\* it, is the record of that pair, which no get_state or transition call on
\* another pair has created or written.
C11_PairsIndependent ==
    \A q \in Pairs :
        /\ HeldFor(q) # <<>>
              => /\ HeldFor(q)[1].thread_ts = q[1]
                 /\ HeldFor(q)[1].channel_id = q[2]
        /\ FileOf(q) # <<>>
              => /\ FileOf(q)[1].thread_ts = q[1]
                 /\ FileOf(q)[1].channel_id = q[2]

\* ------------------------------------------------------------------------
\* The handlers (HandlerSpec).

\* The calls that make up the proposal-deck generation step.
DeckCalls == {"generate_proposal_deck_content", "duplicate_template"}

\* The run entered GENERATING_DECK from WAITING_FOR_APPROVAL on an approval.
Approved(h) ==
    \E j \in 1..Len(h.events) :
        /\ h.events[j].event \in {"APPROVED", "UPDATED_DEAL_ANALYSIS_PROVIDED"}
        /\ h.events[j].from = "WAITING_FOR_APPROVAL"
        /\ h.events[j].to = "GENERATING_DECK"

C8_TranscriptsRetained ==
    ( /\ run.handler \in {"handle_regenerate", "handle_cloud_consent_yes"}
      /\ has_thread(run)
      /\ recorded[<<run.thread_ts, run.channel>>] # <<>> )
    => thread(run).input_transcript_content = recorded[<<run.thread_ts, run.channel>>]

\* ------------------------------------------------------------------------
\* The LLM client (RetrySpec).

\* The generate call is over, on the local path or on the cloud path of a
\* client with a cloud provider.
Local == generating.pc = "done" /\ ~generating.use_cloud
Cloud ==
    generating.pc = "done" /\ generating.use_cloud /\ cloud_available(generating.self)

\* The completion calls and the sleeps among the first n entries of a log.
RECURSIVE Creates(_, _)
Creates(log, n) ==
    IF n = 0 THEN 0
    ELSE Creates(log, n - 1) + (IF log[n].op = "create" THEN 1 ELSE 0)
Calls == Creates(generating.result.log, Len(generating.result.log))
Sleeps == SelectSeq(generating.result.log, LAMBDA e : e.op = "sleep")

\* The i-th completion call raised an exception (that is retried).
Failed(i) == generating.outcomes[i] \in Raised

\* The first n completion calls all failed.
FailedUpTo(n) == \A i \in 1..n : Failed(i)

\* C12. _call_with_retry makes at most MAX_RETRIES = 3 completion calls; it
\* returns the first response it gets when that is not empty, after as many
\* calls as it took to get it; when the first three calls all raise
\* retryable errors it raises LLMError after exactly 3 calls.
C12_AtMostThreeCalls ==
    Local =>
        /\ Calls <= 3
        /\ Calls >= 1
        /\ FailedUpTo(Calls - 1)
        /\ \A k \in 1..3 :
              (FailedUpTo(k - 1) /\ ~Failed(k) /\ ~empty(generating.outcomes[k]))
              => /\ generating.result.end = "return"
                 /\ generating.result.content = generating.outcomes[k]
                 /\ Calls = k
        /\ generating.result.end = "return"
              => /\ generating.result.content = generating.outcomes[Calls]
                 /\ ~Failed(Calls) /\ ~empty(generating.outcomes[Calls])
        /\ FailedUpTo(3)
              => /\ generating.result.end = "raise"
                 /\ generating.result.error_type \in {"LLM_ERROR", "LLM_OFFLINE"}
                 /\ Calls = 3

\* C12 witnesses: three failed calls of different kinds, and a response on
\* the third call after two failures.
C12_Witness ==
    /\ Local
    /\ generating.outcomes[1] = "APIStatusError"
    /\ generating.outcomes[2] = "RuntimeError"
    /\ generating.outcomes[3] = "APIStatusError"
    /\ generating.result.end = "raise"
    /\ Calls = 3

\* C13. In _call_with_retry a sleep comes only right after a failed
\* retryable attempt i < 3 and right before attempt i + 1, and lasts
\* BACKOFF_SECONDS[i] (1 s after the first failure, 2 s after the second);
\* every such attempt is followed by its sleep, and nothing follows the
\* third attempt, a response, or a failure that is not retried.
C13_SleepBetweenAttempts ==
    Local =>
        \A i \in 1..Len(generating.result.log) :
            /\ generating.result.log[i].op = "sleep"
                => /\ i > 1 /\ i < Len(generating.result.log)
                   /\ generating.result.log[i - 1].op = "create"
                   /\ generating.result.log[i - 1].outcome \in Raised
                   /\ generating.result.log[i - 1].attempt = generating.result.log[i].attempt
                   /\ generating.result.log[i].attempt < 3
                   /\ generating.result.log[i].seconds =
                         <<1, 2>>[generating.result.log[i].attempt]
                   /\ generating.result.log[i + 1].op = "create"
                   /\ generating.result.log[i + 1].attempt =
                         generating.result.log[i].attempt + 1
            /\ generating.result.log[i].op = "create"
                => IF /\ generating.result.log[i].outcome \in Raised
                      /\ generating.result.log[i].attempt < 3
                   THEN /\ i < Len(generating.result.log)
                        /\ generating.result.log[i + 1].op = "sleep"
                   ELSE i = Len(generating.result.log)

\* C13 witness: three failed attempts with a sleep of 1 s and one of 2 s
\* between them and none at the end.
C13_Witness ==
    /\ Local
    /\ FailedUpTo(3)
    /\ generating.outcomes[3] = "APIStatusError"
    /\ Len(Sleeps) = 2
    /\ Sleeps[1].seconds = 1 /\ Sleeps[2].seconds = 2
    /\ Len(generating.result.log) = 5
    /\ generating.result.log[5].op = "create"

\* C14. _call_with_retry raises LLM_OFFLINE exactly when the third attempt
\* fails with a connection error; when the third attempt fails with a status
\* error, a timeout or an unclassified exception it raises LLM_ERROR.
C14_OfflineOnlyOnConnectionError ==
    (Local /\ generating.result.end = "raise") =>
        /\ generating.result.error_type = "LLM_OFFLINE"
              <=> (Calls = 3 /\ generating.outcomes[3] = "APIConnectionError")
        /\ (FailedUpTo(3) /\ generating.outcomes[3] \in
                {"APIStatusError", "APITimeoutError", "RuntimeError"})
              => generating.result.error_type = "LLM_ERROR"

\* C15. On either path, when the k-th completion call is the first that
\* returns, and returns an empty, whitespace-only or None content, generate
\* raises LLM_INVALID with that call as the last thing it did: k calls, no
\* sleep after it (one call when k = 1).
C15_EmptyResponseNotRetried ==
    (Local \/ Cloud) =>
        \A k \in 1..3 :
            (FailedUpTo(k - 1) /\ generating.outcomes[k] \in {"", " ", "None"})
            => /\ generating.result.end = "raise"
               /\ generating.result.error_type = "LLM_INVALID"
               /\ Calls = k
               /\ Len(Sleeps) = k - 1
               /\ generating.result.log[Len(generating.result.log)] =
                     create(k - 1, generating.outcomes[k])

\* C15 witness: whitespace on the second attempt, after a timeout.
C15_Witness ==
    /\ Local
    /\ generating.outcomes[1] = "APITimeoutError"
    /\ generating.outcomes[2] = " "
    /\ generating.outcomes[3] = "analysis"
    /\ generating.result.error_type = "LLM_INVALID"
    /\ Calls = 2

\* C16. For every sequence of attempt outcomes _call_cloud does what
\* _call_with_retry does: the same calls and sleeps, the same result or
\* error kind.
C16_CloudSamePolicy ==
    Cloud =>
        /\ generating.result.log = _call_with_retry(generating.outcomes).log
        /\ generating.result.end = _call_with_retry(generating.outcomes).end
        /\ generating.result.content = _call_with_retry(generating.outcomes).content
        /\ generating.result.error_type =
              _call_with_retry(generating.outcomes).error_type

\* ------------------------------------------------------------------------
\* The handlers and the cloud fallback (HandlerSpec).

\* The run made a transition with the event.
Made(h, event) == \E i \in 1..Len(h.events) : h.events[i].event = event

\* An analyse run whose LLM call failed as offline.
AnalyseOffline(h) ==
    h.handler = "handle_analyse_command" /\ h.llm_error = "LLM_OFFLINE"

\* C18. Offline to cloud: when the LLM call of handle_analyse_command fails
\* with LLM_OFFLINE the conversation is in ERROR with error_type LLM_OFFLINE;
\* when the user then accepts the consent on that thread and no step of
\* handle_cloud_consent_yes fails, the conversation ends in
\* WAITING_FOR_APPROVAL with cloud_consent_given = TRUE.
C18_OfflineToCloud ==
    [][/\ AnalyseOffline(run')
          => /\ has_thread(run')
             /\ thread(run').state = "ERROR"
             /\ thread(run').error_type = "LLM_OFFLINE"
       /\ ( /\ AnalyseOffline(run) /\ cloud_available(run.llm)
            /\ run'.handler = "handle_cloud_consent_yes"
            /\ run'.thread_ts = run.thread_ts /\ run'.channel = run.channel
            /\ run'.pc = "return"
            /\ run'.llm_error = "None" /\ ~Made(run', "FAILED") )
          => /\ has_thread(run')
             /\ thread(run').state = "WAITING_FOR_APPROVAL"
             /\ thread(run').cloud_consent_given = TRUE]_vars

\* The last message the run sent.
LastSaid(h) == h.said[Len(h.said)]

C20_ErrorsRecordedBeforeReported ==
    /\ \A i \in 1..Len(run.said) :
          (\E k \in DOMAIN ERROR_MESSAGES : run.said[i] = format_error(k))
          => /\ has_thread(run)
             /\ Made(run, "FAILED")
             /\ run.said[i] = format_error(thread(run).error_type)
             /\ thread(run).error_message # "None"
    /\ (has_thread(run) /\ thread(run).state = "ERROR")
          => /\ thread(run).error_type # "None"
             /\ thread(run).error_message # "None"

\* ------------------------------------------------------------------------
\* WebFetcher.fetch_url.

\* The attempts made, the i-th outcome: a 4xx response, another failure.
Opens ==
    Cardinality({i \in 1..Len(fetching.result.log) :
                    fetching.result.log[i].op = "urlopen"})
ClientError(i) ==
    fetching.outcomes[i].exc = "HTTPError" /\ fetching.outcomes[i].code \in 400..499
ServerError(i) ==
    fetching.outcomes[i].exc = "HTTPError" /\ fetching.outcomes[i].code \in 500..599
FetchFailed(i) == fetching.outcomes[i].exc # "None"
Retried(i) == FetchFailed(i) /\ ~ClientError(i)
RetriedUpTo(n) == \A i \in 1..n : Retried(i)
LastEntry == fetching.result.log[Len(fetching.result.log)]

\* C23: in fetch_url an HTTP 4xx response at any attempt ends the fetch at
\* once: that attempt is the last entry of the log (no further attempt, no
\* sleep after it) and the result is None; an HTTP 5xx response at an attempt
\* before the third is followed by another attempt.
C23_ClientErrorEndsFetch ==
    fetching.pc = "done" =>
        \A k \in 1..3 :
            /\ (RetriedUpTo(k - 1) /\ ClientError(k))
                  => /\ fetching.result.content = "None"
                     /\ Opens = k
                     /\ LastEntry = urlopen(k - 1, fetching.outcomes[k])
            /\ (RetriedUpTo(k - 1) /\ ServerError(k) /\ k < 3)
                  => /\ Opens > k
                     /\ \E i \in 1..Len(fetching.result.log) :
                           fetching.result.log[i] = urlopen(k, fetching.outcomes[k + 1])

\* A fetch that got a 503, slept, and ended on a 404 although the third
\* attempt would have given the page.
C23_Witness ==
    /\ fetching.pc = "done"
    /\ fetching.outcomes[1] = HTTPError(503)
    /\ fetching.outcomes[2] = HTTPError(404)
    /\ fetching.outcomes[3] = Response("<html>")
    /\ fetching.result.content = "None"
    /\ Len(fetching.result.log) = 3
    /\ fetching.result.log[2] = sleep(0, 1)

\* The log of a fetch: the attempts are numbered from 1 on, at most 3; after
\* a failed attempt that "failing" holds of, before the third, comes a sleep
\* of 1 s (first) or 2 s (second) and then the next attempt; every other
\* attempt is the last entry; and there is no other sleep.
Schedule(failing(_)) ==
    /\ Opens <= 3
    /\ \A i \in 1..Len(fetching.result.log) :
          /\ fetching.result.log[i].op = "urlopen"
                => /\ fetching.result.log[i].outcome =
                         fetching.outcomes[fetching.result.log[i].attempt]
                   /\ IF /\ failing(fetching.result.log[i].attempt)
                         /\ fetching.result.log[i].attempt < 3
                      THEN /\ i + 2 <= Len(fetching.result.log)
                           /\ fetching.result.log[i + 1] =
                                 sleep(fetching.result.log[i].attempt - 1,
                                       <<1, 2>>[fetching.result.log[i].attempt])
                           /\ fetching.result.log[i + 2].op = "urlopen"
                           /\ fetching.result.log[i + 2].attempt =
                                 fetching.result.log[i].attempt + 1
                      ELSE i = Len(fetching.result.log)
          /\ fetching.result.log[i].op = "sleep"
                => /\ i > 1
                   /\ fetching.result.log[i - 1].op = "urlopen"
                   /\ failing(fetching.result.log[i - 1].attempt)
                   /\ fetching.result.log[i - 1].attempt < 3
    /\ Len(fetching.result.log) > 0 /\ fetching.result.log[1].op = "urlopen"
    /\ fetching.result.log[1].attempt = 1

\* C24 as stated: for every sequence of attempt outcomes fetch_url makes at
\* most 3 attempts, sleeps 1 s after the first failed attempt and 2 s after
\* the second and never after the third, returns the content of the first
\* successful attempt, and None when all 3 attempts fail.
C24_RetrySchedule ==
    fetching.pc = "done" =>
        /\ Schedule(FetchFailed)
        /\ \A k \in 1..3 :
              ((\A i \in 1..(k - 1) : FetchFailed(i)) /\ ~FetchFailed(k))
                 => fetching.result.content = fetching.outcomes[k].content
        /\ (\A i \in 1..3 : FetchFailed(i)) => fetching.result.content = "None"

\* C24, amended: the same, where a failed attempt is followed by a sleep and
\* another attempt unless it failed with an HTTP 4xx response, which ends
\* the fetch with None.
C24_RetryScheduleUnlessClientError ==
    fetching.pc = "done" =>
        /\ Schedule(Retried)
        /\ \A k \in 1..3 :
              (RetriedUpTo(k - 1) /\ ~FetchFailed(k))
                 => fetching.result.content = fetching.outcomes[k].content
        /\ (\E k \in 1..3 : RetriedUpTo(k - 1) /\ ClientError(k))
              => fetching.result.content = "None"
        /\ RetriedUpTo(3) => fetching.result.content = "None"

\* Two failures, a sleep of 1 s and one of 2 s, and the page at the third
\* attempt.
C24_Witness ==
    /\ fetching.pc = "done"
    /\ fetching.outcomes[1] = URLError
    /\ fetching.outcomes[2] = HTTPError(500)
    /\ fetching.outcomes[3] = Response("<html>")
    /\ fetching.result.content = "<html>"
    /\ Len(fetching.result.log) = 5
    /\ fetching.result.log[2] = sleep(0, 1)
    /\ fetching.result.log[4] = sleep(1, 2)

\* ------------------------------------------------------------------------
\* WebFetcher.fetch_multiple.

\* The fetches submitted for a url.
FetchesOf(url) == {i \in 1..Len(pool.urls) : pool.urls[i] = url}

\* C21: for every list of urls, with or without repeated urls, and every
\* completion order, fetch_multiple returns a list as long as the input
\* whose i-th pair is the i-th url and what the fetch submitted for position
\* i returned.
C21_ResultsByPosition ==
    pool.pc = "done" =>
        /\ Len(pool.returned) = Len(pool.urls)
        /\ \A i \in 1..Len(pool.urls) :
              pool.returned[i] = <<pool.urls[i], pool.futures[i].result>>

\* C22: at most max_workers fetches are running at any time; when
\* fetch_multiple returns every fetch has run to its end, a url with a fetch
\* that failed has the pair (url, None), and a url whose fetches all
\* succeeded has the content of one of them.
C22_FailureIsolated ==
    /\ running_calls(pool.futures) <= pool.max_workers
    /\ pool.pc = "done" =>
          \A i \in 1..Len(pool.urls) :
              /\ pool.futures[i].state = "FINISHED"
              /\ pool.returned[i][1] = pool.urls[i]
              /\ IF \E j \in FetchesOf(pool.urls[i]) : pool.futures[j].result = "None"
                 THEN pool.returned[i][2] = "None"
                 ELSE \E j \in FetchesOf(pool.urls[i]) :
                         pool.returned[i][2] = pool.futures[j].result

\* ------------------------------------------------------------------------
\* The context builder.

\* A call of the operation is over.
Op(name) == building.pc = "done" /\ building.op = name

\* The text is the markers "--- Transcript i ---" for i, i + 1, ... up to the
\* number of entries, one after the other, each followed by a blank line and
\* its entry, with a blank line before the next marker.
RECURSIVE MarkedFrom(_, _, _)
MarkedFrom(text, entries, i) ==
    IF i > Len(entries) THEN text = ""
    ELSE \E marker \in {"--- Transcript " \o ToString(i) \o " ---"} :
         \E body \in {"\n\n" \o entries[i] \o (IF i < Len(entries) THEN "\n\n" ELSE "")} :
            /\ SubSeq(text, 1, Len(marker)) = marker
            /\ SubSeq(text, Len(marker) + 1, Len(marker) + Len(body)) = body
            /\ MarkedFrom(SubSeq(text, Len(marker) + Len(body) + 1, Len(text)),
                          entries, i + 1)

\* The merged text for the entries that count as non-empty.
Merged(entries) ==
    /\ Len(entries) >= 2 => MarkedFrom(building.result, entries, 1)
    /\ Len(entries) = 1 => /\ building.result = entries[1]
                           /\ find(building.result, "--- Transcript") = 0

\* C25 as stated: for a list with K >= 2 non-empty entries _merge_transcripts
\* produces the markers 1..K in increasing position, numbered over the
\* non-empty entries in their order, each original string verbatim between
\* its marker and the next; a single non-empty entry is returned unmodified
\* with no marker.
C25_MergeVerbatim ==
    (Op("_merge_transcripts") /\ "list" \in DOMAIN building.args.transcript) =>
        Merged(SelectSeq(building.args.transcript.list, LAMBDA t : t # ""))

\* C25, amended: the same over the entries that are not empty after
\* str.strip(), each entry appearing stripped of its leading and trailing
\* whitespace; a transcript passed as a string is returned as it is.
C25_MergeStripped ==
    Op("_merge_transcripts") =>
        IF "str" \in DOMAIN building.args.transcript
        THEN building.result = building.args.transcript.str
        ELSE Merged(SelectSeq([i \in 1..Len(building.args.transcript.list) |->
                                  strip(building.args.transcript.list[i])],
                              LAMBDA t : t # ""))

\* Two entries around a blank one, the second with whitespace around it.
C25_Witness ==
    /\ Op("_merge_transcripts")
    /\ building.args.transcript = [list |-> <<"call A", " ", " call B\n">>]
    /\ building.result = "--- Transcript 1 ---\n\ncall A\n\n--- Transcript 2 ---\n\ncall B"

\* C26: a transcript whose estimated tokens exceed MAX_TRANSCRIPT_TOKENS
\* (24,000), with no summarizer, gives transcript_truncated = true and a
\* transcript section of at most 96,000 characters.
C26_TranscriptWithinBudget ==
    (/\ Op("build_context")
     /\ building.args.summarizer = "None"
     /\ building.result.transcript_original_tokens > 24000)
        => /\ building.result.transcript_truncated
           /\ Len(building.result.sections[1]) <= 96000

\* C27: the section text _build_section returns, headers and separators
\* included, is at most max_chars characters long; the references section
\* of build_context is at most 40,000 and its web section at most 24,000
\* characters long.
C27_SectionWithinBudget ==
    /\ Op("_build_section") => Len(building.result.text) <= building.args.max_chars
    /\ Op("build_context") => /\ Len(building.result.sections[2]) <= 40000
                              /\ Len(building.result.sections[3]) <= 24000

\* The items with the first two exchanged.
Exchanged(items) == [i \in 1..Len(items) |-> IF i = 1 THEN items[2]
                                               ELSE IF i = 2 THEN items[1] ELSE items[i]]

\* The equal share of an item and the content lengths of the first two.
Share ==
    (building.args.max_chars - (Len(building.args.section_header) + 2))
        \div Len(building.args.items)

\* C28: for items that are all non-empty, when the first is shorter than its
\* equal share and the second is longer than it, the second (after the
\* short one) is allotted strictly more characters than it is allotted as
\* the first item of the same list with the two exchanged.
C28_CarryForward ==
    (/\ Op("_build_section")
     /\ Len(building.args.items) >= 2
     /\ \A i \in 1..Len(building.args.items) : strip(building.args.items[i]) # ""
     /\ Share > 0
     /\ Len(strip(building.args.items[1])) < Share
     /\ Len(strip(building.args.items[2])) > Share)
        => /\ Len(building.result.budgets) >= 2
           /\ building.result.budgets[2] >
                 _build_section(Exchanged(building.args.items), building.args.max_chars,
                                building.args.section_header,
                                building.args.item_prefix).budgets[1]

\* Two sections with the separator between them, or the one that is there.
Glue(a, b) == IF a = "" THEN b ELSE IF b = "" THEN a ELSE a \o "\n\n---\n\n" \o b

\* No item of the list is non-empty (after str.strip()).
Blank(items) == \A i \in 1..Len(items) : strip(items[i]) = ""

\* A section is empty or begins with its header.
Headed(section, header) ==
    section # "" => SubSeq(section, 1, Len(header) + 2) = header \o "\n\n"

\* C29: the context of build_context is its non-empty sections in the order
\* transcript, references, web with "---" between adjacent ones, each under
\* its own header; a references or web list without a non-empty item gives
\* no section, no header and the count 0, and so does _build_section when
\* the budget left after the section header is not positive.
C29_SectionsJoined ==
    /\ Op("build_context") =>
          /\ building.result.context =
                Glue(building.result.sections[1],
                     Glue(building.result.sections[2], building.result.sections[3]))
          /\ Headed(building.result.sections[1], "## TRANSCRIPT")
          /\ Headed(building.result.sections[2], "## REFERENCE MATERIALS")
          /\ Headed(building.result.sections[3], "## WEB RESEARCH")
          /\ building.result.sections[1] = "" <=> ~building.result.transcript_included
          /\ Blank(building.args.references)
                => /\ building.result.sections[2] = ""
                   /\ building.result.references_included_count = 0
                   /\ find(building.result.context, "## REFERENCE MATERIALS") = 0
          /\ Blank(building.args.web_content)
                => /\ building.result.sections[3] = ""
                   /\ building.result.web_included_count = 0
                   /\ find(building.result.context, "## WEB RESEARCH") = 0
    /\ Op("_build_section") =>
          /\ (\/ Blank(building.args.items)
              \/ building.args.max_chars - (Len(building.args.section_header) + 2) <= 0)
                => building.result.text = "" /\ building.result.included = 0
          /\ building.result.text = "" <=> building.result.included = 0
          /\ Headed(building.result.text, building.args.section_header)

\* An empty transcript and blank references: the context is the web
\* section alone.
C29_Witness ==
    /\ Op("build_context")
    /\ building.args.transcript = [str |-> " "]
    /\ building.args.references = <<"", " ">>
    /\ building.result.web_included_count = 2
    /\ building.result.context = building.result.sections[3]
    /\ SubSeq(building.result.context, 1, 15) = "## WEB RESEARCH"

\* The calls that summarizing the chunks makes when every chunk from the
\* i-th has its "part i/n" status if "announced", and its summarizer call.
RECURSIVE Progress(_, _, _)
Progress(chunks, i, announced) ==
    IF i > Len(chunks) THEN <<>>
    ELSE (IF announced
          THEN <<[op |-> "on_status",
                  arg |-> "Summarizing part " \o ToString(i) \o "/"
                             \o ToString(Len(chunks)) \o "..."]>>
          ELSE <<>>)
         \o <<[op |-> "summarizer", arg |-> chunks[i]]>>
         \o Progress(chunks, i + 1, announced)

\* The chunks of the transcript of a build_context call, and the status
\* that begins the summarizing.
Chunks ==
    chunk_text(strip(_merge_transcripts(building.args.transcript)), 6000)
Exceeded == <<[op |-> "on_status", arg |-> "Transcript exceeded limit, summarizing..."]>>

\* C30 as stated: when a transcript is summarized in n >= 1 chunks (with an
\* on_status callback), the calls are the "exceeded limit" status, then for
\* i = 1..n the status "part i/n" followed by one summarizer call on chunk i.
C30_ProgressOrder ==
    (/\ Op("build_context")
     /\ building.result.transcript_summarized
     /\ building.args.on_status)
        => building.result.log = Exceeded \o Progress(Chunks, 1, TRUE)

\* C30, amended: the same for n >= 2; for n = 1 the calls are the "exceeded
\* limit" status and one summarizer call on the only chunk, with no "part
\* 1/1" status; without an on_status callback they are the summarizer calls
\* on the chunks 1..n in their order.
C30_ProgressOrderOfSeveral ==
    (Op("build_context") /\ building.result.transcript_summarized)
        => building.result.log =
              IF building.args.on_status
              THEN Exceeded \o Progress(Chunks, 1, Len(Chunks) >= 2)
              ELSE Progress(Chunks, 1, FALSE)

\* A transcript of three chunks: seven calls.
C30_Witness ==
    /\ Op("build_context")
    /\ building.args.on_status
    /\ building.result.transcript_summarized
    /\ Len(building.result.log) = 7
    /\ building.result.log[1] = Exceeded[1]
    /\ building.result.log[2].arg = "Summarizing part 1/3..."
    /\ building.result.log[6].arg = "Summarizing part 3/3..."
    /\ building.result.log[7].op = "summarizer"

\* The number of summarizer calls of a build_context call.
SummarizerCalls ==
    Len(SelectSeq(building.result.log, LAMBDA e : e.op = "summarizer"))

\* C31: build_context calls the summarizer, and returns transcript_summarized
\* = true, exactly when the estimated tokens of the merged transcript (the
\* transcript_original_tokens of the result: a quarter of the characters of
\* the merged and stripped text) exceed MAX_TRANSCRIPT_TOKENS (24,000) and
\* a summarizer was supplied; otherwise
\* the summarizer is called zero times and transcript_summarized is false.
C31_SummarizedIffOverBudget ==
    Op("build_context") =>
        /\ building.result.transcript_summarized <=>
              (/\ building.result.transcript_original_tokens > 24000
               /\ building.args.summarizer # "None")
        /\ SummarizerCalls > 0 <=> building.result.transcript_summarized
        /\ building.result.transcript_original_tokens =
              Len(strip(_merge_transcripts(building.args.transcript))) \div 4

\* A transcript of 24,001 tokens with a summarizer is summarized; the same
\* transcript without one, and one of 24,000 tokens with one, are not.
C31_Witness ==
    /\ Op("build_context")
    /\ building.args.transcript = [str |-> rep("x", 96004)]
    /\ building.args.summarizer = "Summary"
    /\ building.result.transcript_summarized
    /\ SummarizerCalls = 1

\* C32: for every text and every max_tokens > 0, every chunk chunk_text
\* returns has count_tokens(chunk) <= max_tokens and is not empty or
\* whitespace-only; for the empty text or max_tokens <= 0 it returns the
\* empty list.
C32_ChunkBound ==
    Op("chunk_text") =>
        IF building.args.text = "" \/ building.args.max_tokens <= 0
        THEN building.result = <<>>
        ELSE \A i \in 1..Len(building.result) :
                /\ count_tokens(building.result[i]) <= building.args.max_tokens
                /\ strip(building.result[i]) # ""

\* C33: for every text and every max_tokens > 0, the chunks chunk_text
\* returns, rejoined in their order, hold the words of the text, each once
\* and in the order of the text.
C33_WordsPreserved ==
    (Op("chunk_text") /\ building.args.text # "" /\ building.args.max_tokens > 0)
        => split_words(join(" ", building.result)) = split_words(building.args.text)

\* ------------------------------------------------------------------------
\* The storage.

\* C34: load after save returns a record equal to the saved one in every
\* field, state and previous_state (None too) the same members and the
\* timestamps without loss; the file of a key holds the record saved last
\* for it; load for a key never saved returns None.
C34_RoundTrip ==
    /\ ret.op = "save" =>
          /\ load(files, ret.state.thread_ts, ret.state.channel_id) = <<ret.state>>
          /\ files[_get_path(ret.state.thread_ts, ret.state.channel_id)]
                = _serialize(ret.state)
    /\ ret.op = "load" =>
          (<<ret.thread_ts, ret.channel_id>> \notin ret.saved => ret.result = <<>>)

\* ------------------------------------------------------------------------
\* The ends of the workflow.

\* The machine holds a record in DONE for the key.
Done(key) == Held(key) # <<>> /\ Held(key)[1].state = "DONE"

\* C35: DONE is terminal.  Once the record of a conversation is in DONE,
\* every transition call for it, whatever the event, raises
\* InvalidTransitionError (with the state DONE), and the record the machine
\* holds for it (cached or stored) stays in DONE after every call and every
\* restart; with a storage the machine never ceases to hold it.
C35_DoneIsTerminal ==
    [][\A key \in Keys :
        Done(key)
        => /\ Held(key)' # <<>> => Done(key)'
           /\ sm._storage => Held(key)' # <<>>
           /\ (ret'.op = "transition" /\ ret'.key = key)
                 => ret'.raised /\ ret'.current_state = "DONE"]_vars

\* A record in DONE on a machine with a storage has rejected an
\* ANALYSE_REQUESTED event, and is still in DONE.
C35_Witness ==
    /\ Rejected
    /\ ret.event = "ANALYSE_REQUESTED"
    /\ ret.current_state = "DONE"
    /\ sm._storage
    /\ Done(ret.key)
    /\ Stored(ret.key)[1].state = "DONE"

\* ------------------------------------------------------------------------
\* Truncation to a character budget.

\* The positions (from 1) of a character among the first max_chars of a text.
Within(text, sub, max_chars) ==
    {i \in 1..Len(text) : i <= max_chars /\ SubSeq(text, i, i) = sub}

Latest(positions) == CHOOSE i \in positions : \A j \in positions : j <= i

After(text, sub, max_chars) == {i \in Within(text, sub, max_chars) : i > 1}

successors(states) ==
    {TRANSITIONS[edge] : edge \in {e \in DOMAIN TRANSITIONS : e[1] \in states}}

\* The states some sequence of at most n accepted events leads to.
RECURSIVE reach(_, _)
reach(states, n) ==
    IF n = 0 THEN states ELSE reach(states \cup successors(states), n - 1)

leads_to(current_state) == reach({current_state}, Cardinality(State))

\* C39: DONE is the only dead end of the workflow.  Whatever state other than
\* DONE the record of a conversation is in (each is reached from IDLE by
\* transition calls), at least one event is accepted in it, and some sequence
\* of accepted events leads from it to DONE.
C39_DoneOnlyDeadEnd ==
    \A key \in Keys :
        (Held(key) # <<>> /\ ~Done(key))
        => /\ \E event \in Event : can_transition(Held(key)[1].state, event)
           /\ "DONE" \in leads_to(Held(key)[1].state)

\* ------------------------------------------------------------------------
\* The ends of the runs of the handlers.

\* The run made a transition into GENERATING_DEAL_ANALYSIS or GENERATING_DECK.
Entered(h) ==
    \E i \in 1..Len(h.events) :
        h.events[i].to \in {"GENERATING_DEAL_ANALYSIS", "GENERATING_DECK"}

Missing(h) ==
    CASE h.handler = "handle_approval" ->
            \/ thread(h).deal_analysis_content = "None"
            \/ thread(h).proposals_folder_id \in {"None", ""}
      [] h.handler = "handle_regenerate" ->
            \/ thread(h).input_transcript_content = <<>>
            \/ thread(h).analyse_folder_id \in {"None", ""}
      [] h.handler = "handle_cloud_consent_yes" ->
            thread(h).input_transcript_content = <<>>
      [] OTHER -> FALSE

\* The state the run found the record in.
Found(h) == IF h.events = <<>> THEN thread(h).state ELSE h.events[1].from

\* C40: a run of handle_approval, handle_regenerate or
\* handle_cloud_consent_yes that has read the record of its conversation and
\* finds the data of the earlier step absent sends the STATE_MISSING message
\* and nothing else, makes no transition and no call of an external service,
\* and leaves the state of the record as it found it; a run of
\* handle_updated_deal_analysis that finds the record in another state than
\* WAITING_FOR_APPROVAL makes no transition, no call, and sends nothing.
C40_MissingStateOnlyReported ==
    has_thread(run)
    => /\ Missing(run)
          => /\ run.said = <<format_error("STATE_MISSING")>>
             /\ run.events = <<>>
             /\ run.calls = <<>>
             /\ run.pc = "return"
             /\ thread(run).state = "IDLE"
             /\ thread(run).previous_state = "None"
       /\ (run.handler = "handle_updated_deal_analysis"
           /\ Found(run) # "WAITING_FOR_APPROVAL")
          => /\ run.said = <<>>
             /\ run.events = <<>>
             /\ run.calls = <<>>
             /\ run.pc = "return"

\* A run of handle_regenerate found no transcripts in the record and sent
\* the STATE_MISSING message.
C40_Witness ==
    /\ run.handler = "handle_regenerate"
    /\ has_thread(run)
    /\ thread(run).input_transcript_content = <<>>
    /\ run.said = <<format_error("STATE_MISSING")>>
    /\ run.events = <<>>

\* ------------------------------------------------------------------------
\* Two transition calls at the same time.

\* Both calls are over.
Over == threads.calls # <<>> /\ \A i \in 1..2 : ended(threads.calls[i])

\* What the two calls, one after the other in the order given, make of the
\* machine and the files they started from.
one_by_one(order) ==
    LET earlier == transition(threads.before.m, threads.before.fs,
                            Conversation[1], Conversation[2],
                            threads.calls[order[1]].event, <<>>, clock)
    IN  [earlier |-> earlier,
         later |-> transition(earlier.m, earlier.fs, Conversation[1], Conversation[2],
                               threads.calls[order[2]].event, <<>>, clock)]

\* The records are the same but for their time stamps.
alike(a, b) ==
    [a EXCEPT !.created_at = 0, !.updated_at = 0]
        = [b EXCEPT !.created_at = 0, !.updated_at = 0]

\* C36: when two transition calls for one conversation run with their
\* statements interleaved, the record the cache holds and the record the
\* storage holds once both are over are those that the two calls, run one
\* after the other in some order, leave; and two APPROVED events for a
\* conversation in WAITING_FOR_APPROVAL never both return.
C36_AsOneByOne ==
    Over
    => /\ \E order \in {<<1, 2>>, <<2, 1>>} :
             /\ alike(shared, one_by_one(order).later.m._cache[ConversationKey])
             /\ sm._storage
                => alike(load(files, Conversation[1], Conversation[2])[1],
                         load(one_by_one(order).later.fs,
                              Conversation[1], Conversation[2])[1])
       /\ ( /\ threads.calls[1].event = "APPROVED"
            /\ threads.calls[2].event = "APPROVED"
            /\ ConversationKey \in DOMAIN threads.before.m._cache
            /\ threads.before.m._cache[ConversationKey].state = "WAITING_FOR_APPROVAL" )
          => ~(threads.calls[1].pc = "return" /\ threads.calls[2].pc = "return")


====
